---- MODULE Spec2Model ----
(***************************************************************************)
(* A model of the HiFive backend (src/backend): the FastAPI handlers of    *)
(* app.py, the topic aggregation and researcher search of openalex_api.py, *)
(* the static data of mock_data.py and the bibliographic client of         *)
(* callopenalex.py.                                                        *)
(*                                                                         *)
(* Python values are modelled as follows.  A dict is a record (a function  *)
(* on strings); a key the dict lacks is a field the record lacks, and      *)
(* d.get(k, default) is Get(d, k, default).  A list is a sequence.  A str  *)
(* is a string.  None is the string None, which no data value of the       *)
(* model equals.                                                           *)
(***************************************************************************)
EXTENDS Integers, Sequences, FiniteSets, TLC

\* Python's None.
None == "<None>"

\* dict.get(k, default)
Get(d, k, default) == IF k \in DOMAIN d THEN d[k] ELSE default

\* Truth value of an optional str: None and "" are false.
Truthy(s) == s # None /\ s # ""

\* ------------------------------------------------------------------------
\* str.lower() and the substring test `a in b`
\* ------------------------------------------------------------------------
LowerTable ==
    [A |-> "a", B |-> "b", C |-> "c", D |-> "d", E |-> "e", F |-> "f",
     G |-> "g", H |-> "h", I |-> "i", J |-> "j", K |-> "k", L |-> "l",
     M |-> "m", N |-> "n", O |-> "o", P |-> "p", Q |-> "q", R |-> "r",
     S |-> "s", T |-> "t", U |-> "u", V |-> "v", W |-> "w", X |-> "x",
     Y |-> "y", Z |-> "z"]

LowerChar(c) == IF c \in DOMAIN LowerTable THEN LowerTable[c] ELSE c

RECURSIVE Lower(_)
Lower(s) == IF Len(s) = 0 THEN "" ELSE LowerChar(Head(s)) \o Lower(Tail(s))

\* `a in b` for two strs
StrIn(a, b) ==
    \E i \in 1..(Len(b) - Len(a) + 1) : SubSeq(b, i, i + Len(a) - 1) = a

\* mock_data.py get_mock_wordcloud: the static word cloud.
get_mock_wordcloud ==
    <<
      [text |-> "Large Language Models", value |-> 150],
      [text |-> "Multimodal Learning", value |-> 130],
      [text |-> "AI Safety", value |-> 120],
      [text |-> "Reinforcement Learning", value |-> 110],
      [text |-> "Computer Vision", value |-> 105],
      [text |-> "Natural Language Processing", value |-> 100],
      [text |-> "Diffusion Models", value |-> 95],
      [text |-> "Transformer Architecture", value |-> 90],
      [text |-> "Few-Shot Learning", value |-> 85],
      [text |-> "Neural Networks", value |-> 80],
      [text |-> "Deep Learning", value |-> 78],
      [text |-> "Generative AI", value |-> 75],
      [text |-> "AI Alignment", value |-> 70],
      [text |-> "Machine Learning", value |-> 68],
      [text |-> "Vision-Language Models", value |-> 65],
      [text |-> "Agent Systems", value |-> 60],
      [text |-> "Meta-Learning", value |-> 58],
      [text |-> "Explainable AI", value |-> 55],
      [text |-> "Transfer Learning", value |-> 52],
      [text |-> "Graph Neural Networks", value |-> 50],
      [text |-> "Attention Mechanisms", value |-> 48],
      [text |-> "Self-Supervised Learning", value |-> 45],
      [text |-> "Federated Learning", value |-> 42],
      [text |-> "Neural Architecture Search", value |-> 40],
      [text |-> "Robotics", value |-> 38]
    >>

\* mock_data.py get_mock_trending: the static trending list.
get_mock_trending ==
    <<
      [topic |-> "Large Language Models", count |-> 150],
      [topic |-> "Multimodal Learning", count |-> 130],
      [topic |-> "AI Safety", count |-> 120],
      [topic |-> "Reinforcement Learning", count |-> 110],
      [topic |-> "Computer Vision", count |-> 105],
      [topic |-> "Diffusion Models", count |-> 95],
      [topic |-> "Natural Language Processing", count |-> 90],
      [topic |-> "Few-Shot Learning", count |-> 85],
      [topic |-> "Neural Networks", count |-> 80],
      [topic |-> "Deep Learning", count |-> 78],
      [topic |-> "Generative AI", count |-> 75],
      [topic |-> "Vision-Language Models", count |-> 65],
      [topic |-> "Agent Systems", count |-> 60],
      [topic |-> "Meta-Learning", count |-> 58],
      [topic |-> "Explainable AI", count |-> 55]
    >>

\* mock_data.py get_mock_researchers: the static researcher directory.
get_mock_researchers ==
    <<
      [name |-> "Dr. Alice Zhang",
       affiliation |-> "MIT CSAIL",
       country |-> "US",
       link |-> "https://scholar.google.com/citations?user=alice_zhang",
       topics |-> <<"Large Language Models", "Natural Language Processing", "AI Safety">>,
       citations |-> 15420,
       works_count |-> 87],
      [name |-> "Prof. Mark Liu",
       affiliation |-> "Stanford AI Lab",
       country |-> "US",
       link |-> "https://arxiv.org/a/liu_m_1.html",
       topics |-> <<"Multimodal Learning", "Vision-Language Models", "Computer Vision">>,
       citations |-> 12350,
       works_count |-> 65],
      [name |-> "Dr. Sarah Chen",
       affiliation |-> "Google DeepMind",
       country |-> "UK",
       link |-> "https://scholar.google.com/citations?user=sarah_chen",
       topics |-> <<"Reinforcement Learning", "Agent Systems", "AI Safety">>,
       citations |-> 18900,
       works_count |-> 52],
      [name |-> "Prof. James Anderson",
       affiliation |-> "UC Berkeley",
       country |-> "US",
       link |-> "https://scholar.google.com/citations?user=j_anderson",
       topics |-> <<"Deep Learning", "Neural Networks", "Transfer Learning">>,
       citations |-> 22100,
       works_count |-> 120],
      [name |-> "Dr. Elena Rodriguez",
       affiliation |-> "Carnegie Mellon University",
       country |-> "US",
       link |-> "https://scholar.google.com/citations?user=e_rodriguez",
       topics |-> <<"Computer Vision", "Generative AI", "Diffusion Models">>,
       citations |-> 9800,
       works_count |-> 45],
      [name |-> "Prof. Wei Li",
       affiliation |-> "Tsinghua University",
       country |-> "CN",
       link |-> "https://scholar.google.com/citations?user=wei_li",
       topics |-> <<"Natural Language Processing", "Large Language Models", "Machine Learning">>,
       citations |-> 14200,
       works_count |-> 92],
      [name |-> "Dr. Michael Brown",
       affiliation |-> "Oxford University",
       country |-> "UK",
       link |-> "https://scholar.google.com/citations?user=m_brown",
       topics |-> <<"AI Safety", "AI Alignment", "Explainable AI">>,
       citations |-> 8500,
       works_count |-> 38],
      [name |-> "Prof. Yuki Tanaka",
       affiliation |-> "University of Tokyo",
       country |-> "JP",
       link |-> "https://scholar.google.com/citations?user=y_tanaka",
       topics |-> <<"Robotics", "Reinforcement Learning", "Agent Systems">>,
       citations |-> 11200,
       works_count |-> 68],
      [name |-> "Dr. Sophie Martin",
       affiliation |-> "ETH Zurich",
       country |-> "CH",
       link |-> "https://scholar.google.com/citations?user=s_martin",
       topics |-> <<"Meta-Learning", "Few-Shot Learning", "Transfer Learning">>,
       citations |-> 7600,
       works_count |-> 41],
      [name |-> "Prof. David Kumar",
       affiliation |-> "IIT Delhi",
       country |-> "IN",
       link |-> "https://scholar.google.com/citations?user=d_kumar",
       topics |-> <<"Graph Neural Networks", "Deep Learning", "Machine Learning">>,
       citations |-> 6900,
       works_count |-> 55]
    >>

\* app.py get_lootbox, except branch: the static capsule set.
mock_capsules ==
    <<
      [title |-> "Attention Is All You Need",
       year |-> 2017,
       citations |-> 98234,
       link |-> "https://openalex.org/W2964315648",
       rarity |-> "SSR",
       rarity_label |-> "Legendary",
       authors |-> <<"Ashish Vaswani", "Noam Shazeer", "Niki Parmar">>,
       concepts |-> <<"Transformer", "Neural Network", "Natural Language Processing">>],
      [title |-> "BERT: Pre-training of Deep Bidirectional Transformers",
       year |-> 2019,
       citations |-> 67543,
       link |-> "https://openalex.org/W2964315649",
       rarity |-> "SSR",
       rarity_label |-> "Legendary",
       authors |-> <<"Jacob Devlin", "Ming-Wei Chang", "Kenton Lee">>,
       concepts |-> <<"BERT", "Language Model", "NLP">>],
      [title |-> "Deep Residual Learning for Image Recognition",
       year |-> 2016,
       citations |-> 154234,
       link |-> "https://openalex.org/W2964315650",
       rarity |-> "SSR",
       rarity_label |-> "Legendary",
       authors |-> <<"Kaiming He", "Xiangyu Zhang", "Shaoqing Ren">>,
       concepts |-> <<"Computer Vision", "ResNet", "Deep Learning">>],
      [title |-> "Generative Adversarial Networks",
       year |-> 2014,
       citations |-> 45678,
       link |-> "https://openalex.org/W2964315651",
       rarity |-> "SSR",
       rarity_label |-> "Legendary",
       authors |-> <<"Ian Goodfellow", "Jean Pouget-Abadie", "Mehdi Mirza">>,
       concepts |-> <<"GAN", "Generative Model", "Deep Learning">>],
      [title |-> "Adam: A Method for Stochastic Optimization",
       year |-> 2015,
       citations |-> 123456,
       link |-> "https://openalex.org/W2964315652",
       rarity |-> "SSR",
       rarity_label |-> "Legendary",
       authors |-> <<"Diederik P. Kingma", "Jimmy Ba">>,
       concepts |-> <<"Optimization", "Machine Learning", "Gradient Descent">>],
      [title |-> "Neural Architecture Search with Reinforcement Learning",
       year |-> 2017,
       citations |-> 876,
       link |-> "https://openalex.org/W2964315653",
       rarity |-> "SR",
       rarity_label |-> "Epic",
       authors |-> <<"Barret Zoph", "Quoc V. Le">>,
       concepts |-> <<"AutoML", "Neural Architecture Search", "Reinforcement Learning">>],
      [title |-> "EfficientNet: Rethinking Model Scaling",
       year |-> 2019,
       citations |-> 543,
       link |-> "https://openalex.org/W2964315654",
       rarity |-> "SR",
       rarity_label |-> "Epic",
       authors |-> <<"Mingxing Tan", "Quoc V. Le">>,
       concepts |-> <<"Computer Vision", "Model Scaling", "Neural Networks">>],
      [title |-> "Graph Neural Networks: A Review",
       year |-> 2020,
       citations |-> 234,
       link |-> "https://openalex.org/W2964315655",
       rarity |-> "R",
       rarity_label |-> "Rare",
       authors |-> <<"Jie Zhou", "Ganqu Cui", "Zhengyan Zhang">>,
       concepts |-> <<"Graph Neural Networks", "Deep Learning", "Graph Theory">>],
      [title |-> "Self-Supervised Learning in Computer Vision",
       year |-> 2021,
       citations |-> 187,
       link |-> "https://openalex.org/W2964315656",
       rarity |-> "R",
       rarity_label |-> "Rare",
       authors |-> <<"Alexey Dosovitskiy", "Lucas Beyer", "Alexander Kolesnikov">>,
       concepts |-> <<"Self-Supervised Learning", "Computer Vision", "Representation Learning">>],
      [title |-> "Few-Shot Learning with Meta-Learning",
       year |-> 2022,
       citations |-> 45,
       link |-> "https://openalex.org/W2964315657",
       rarity |-> "N",
       rarity_label |-> "Common",
       authors |-> <<"Chelsea Finn", "Pieter Abbeel", "Sergey Levine">>,
       concepts |-> <<"Few-Shot Learning", "Meta-Learning", "Transfer Learning">>]
    >>

\* ------------------------------------------------------------------------
\* Upstream replies.  An outbound HTTP call either raises (a transport
\* error, a timeout: the reply has the field error) or gives a response with
\* a status_code and, when the payload parses as JSON, a body.
\* A function that returns Optional[...] returns NoneResult or Some(v).
\* ------------------------------------------------------------------------
NoneResult == [is_none |-> TRUE]
Some(v) == [is_none |-> FALSE, value |-> v]

\* `if data:` for an Optional[list]
TruthyList(r) == ~r.is_none /\ Len(r.value) > 0

\* ------------------------------------------------------------------------
\* openalex_api.py get_trending_topics
\* ------------------------------------------------------------------------
\* sorted(...)[:30]
TopN == 30

\* the level a concept must reach to be counted
MinLevel == 2

\* a count that notes a name once and does not add to it afterwards
CountTopicOnce(topic_counts, name) ==
    IF \E i \in DOMAIN topic_counts : topic_counts[i][1] = name
    THEN topic_counts
    ELSE Append(topic_counts, <<name, 1>>)

\* topic_counts[name] = topic_counts.get(name, 0) + 1, on a dict kept as the
\* sequence of its <<key, value>> items in insertion order.
CountTopic(topic_counts, name) ==
    IF \E i \in DOMAIN topic_counts : topic_counts[i][1] = name
    THEN [i \in DOMAIN topic_counts |->
             IF topic_counts[i][1] = name
             THEN <<name, topic_counts[i][2] + 1>>
             ELSE topic_counts[i]]
    ELSE Append(topic_counts, <<name, 1>>)

\* a count that takes every named tag, whatever its level
ConceptCountsAnyLevel(concept) ==
    Get(concept, "display_name", "") # ""

\* if name and concept.get("level", 0) >= 2
ConceptCounts(concept) ==
    /\ Get(concept, "display_name", "") # ""
    /\ Get(concept, "level", 0) >= MinLevel

\* for concept in work.get("concepts", []): ...
RECURSIVE CountConcepts(_, _)
CountConcepts(concepts, topic_counts) ==
    IF concepts = <<>> THEN topic_counts
    ELSE CountConcepts(Tail(concepts),
                       IF ConceptCounts(Head(concepts))
                       THEN CountTopic(topic_counts, Head(concepts).display_name)
                       ELSE topic_counts)

\* for work in data.get("results", []): ...
RECURSIVE CountWorks(_, _)
CountWorks(works, topic_counts) ==
    IF works = <<>> THEN topic_counts
    ELSE CountWorks(Tail(works),
                    CountConcepts(Get(Head(works), "concepts", <<>>), topic_counts))

\* a step of a sort that puts an item in front of the items of its count
SortedInsertBeforeEquals(sorted, item) ==
    LET ahead == {i \in DOMAIN sorted : sorted[i][2] > item[2]}
        k == Cardinality(ahead)
    IN SubSeq(sorted, 1, k) \o <<item>> \o SubSeq(sorted, k + 1, Len(sorted))

\* One step of sorted(items, key=lambda x: x[1], reverse=True): Python's sort
\* is stable, also with reverse=True, so an item goes behind every item of
\* an equal or larger count that came before it.  sorted is in descending
\* order, so these items are its first k.
SortedInsert(sorted, item) ==
    LET ahead == {i \in DOMAIN sorted : sorted[i][2] >= item[2]}
        k == Cardinality(ahead)
    IN SubSeq(sorted, 1, k) \o <<item>> \o SubSeq(sorted, k + 1, Len(sorted))

RECURSIVE SortedByCount(_, _)
SortedByCount(items, sorted) ==
    IF items = <<>> THEN sorted
    ELSE SortedByCount(Tail(items), SortedInsert(sorted, Head(items)))

\* the counted items, sorted, without the cut
SortedTopicsUncut(data) ==
    SortedByCount(CountWorks(Get(data, "results", <<>>), <<>>), <<>>)

\* sorted_topics: the counted items, sorted, cut to the first 30
SortedTopics(data) ==
    LET topic_counts == CountWorks(Get(data, "results", <<>>), <<>>)
        sorted == SortedByCount(topic_counts, <<>>)
    IN SubSeq(sorted, 1, IF Len(sorted) < TopN THEN Len(sorted) ELSE TopN)

\* the two output shapes of get_trending_topics
ShapeTopics(sorted_topics, mode) ==
    IF mode = "wordcloud"
    THEN [i \in DOMAIN sorted_topics |->
             [text |-> sorted_topics[i][1], value |-> sorted_topics[i][2]]]
    ELSE [topics |-> [i \in DOMAIN sorted_topics |-> sorted_topics[i][1]],
          counts |-> [i \in DOMAIN sorted_topics |-> sorted_topics[i][2]]]

\* a get_trending_topics that reads data["results"]: a page without the key
\* raises, and the except branch returns None
GetTrendingTopicsKeyed(reply, mode) ==
    IF "error" \in DOMAIN reply THEN NoneResult
    ELSE IF reply.status_code # 200 THEN NoneResult
    ELSE IF "body" \notin DOMAIN reply THEN NoneResult
    ELSE IF "results" \notin DOMAIN reply.body THEN NoneResult
    ELSE Some(ShapeTopics(SortedTopics(reply.body), mode))

\* get_trending_topics(mode) given the reply of its one GET /works: None on
\* a raised call, on a status other than 200 and on a payload that is no
\* JSON object (every exception is caught), else the shaped topics.
get_trending_topics(reply, mode) ==
    IF "error" \in DOMAIN reply THEN NoneResult
    ELSE IF reply.status_code # 200 THEN NoneResult
    ELSE IF "body" \notin DOMAIN reply THEN NoneResult
    ELSE Some(ShapeTopics(SortedTopics(reply.body), mode))

\* ------------------------------------------------------------------------
\* openalex_api.py search_researchers
\* ------------------------------------------------------------------------
\* the first n items of a list: lst[:n]
Take(lst, n) == SubSeq(lst, 1, IF Len(lst) < n THEN Len(lst) ELSE n)

\* str.replace(' ', '+')
RECURSIVE ReplaceSpaces(_)
ReplaceSpaces(s) ==
    IF Len(s) = 0 THEN ""
    ELSE (IF Head(s) = " " THEN "+" ELSE Head(s)) \o ReplaceSpaces(Tail(s))

\* one entry of researchers, shaped from an author of the /authors page
ShapeResearcher(author) ==
    LET x_concepts == Take(Get(author, "x_concepts", <<>>), 5)
        institution_info == Get(author, "last_known_institution", <<>>)
        orcid == Get(author, "orcid", None)
    IN [name |-> Get(author, "display_name", "Unknown"),
        affiliation |-> Get(institution_info, "display_name", "Unknown"),
        country |-> Get(institution_info, "country_code", ""),
        link |-> IF Truthy(orcid) THEN orcid
                 ELSE "https://scholar.google.com/scholar?q="
                      \o ReplaceSpaces(Get(author, "display_name", "")),
        topics |-> [i \in DOMAIN x_concepts |->
                       Get(x_concepts[i], "display_name", None)],
        citations |-> Get(author, "cited_by_count", 0),
        works_count |-> Get(author, "works_count", 0)]

\* search_researchers given the reply of its one GET /authors
search_researchers(reply) ==
    IF "error" \in DOMAIN reply THEN NoneResult
    ELSE IF reply.status_code # 200 THEN NoneResult
    ELSE IF "body" \notin DOMAIN reply THEN NoneResult
    ELSE LET results == Get(reply.body, "results", <<>>)
         IN Some([i \in DOMAIN results |-> ShapeResearcher(results[i])])

\* ------------------------------------------------------------------------
\* app.py get_researchers: the filter of the mock researchers
\* ------------------------------------------------------------------------
\* any(topic.lower() in t.lower() for t in r.get("topics", []))
TopicMatches(r, topic) ==
    LET topics == Get(r, "topics", <<>>)
    IN \E i \in DOMAIN topics : StrIn(Lower(topic), Lower(topics[i]))

\* institution.lower() in r.get("affiliation", "").lower()
InstitutionMatches(r, institution) ==
    StrIn(Lower(institution), Lower(Get(r, "affiliation", "")))

\* a country filter that compares without lowering
CountryMatchesCased(r, country) ==
    StrIn(country, Get(r, "country", ""))

\* country.lower() in r.get("country", "").lower()
CountryMatches(r, country) ==
    StrIn(Lower(country), Lower(Get(r, "country", "")))

FilterByTopic(researchers, topic) ==
    IF Truthy(topic)
    THEN SelectSeq(researchers, LAMBDA r : TopicMatches(r, topic))
    ELSE researchers

FilterByInstitution(researchers, institution) ==
    IF Truthy(institution)
    THEN SelectSeq(researchers, LAMBDA r : InstitutionMatches(r, institution))
    ELSE researchers

\* a country filter that reads the mock list again instead of `filtered`
FilterByCountryOfMock(researchers, country) ==
    IF Truthy(country)
    THEN SelectSeq(get_mock_researchers, LAMBDA r : CountryMatches(r, country))
    ELSE researchers

FilterByCountry(researchers, country) ==
    IF Truthy(country)
    THEN SelectSeq(researchers, LAMBDA r : CountryMatches(r, country))
    ELSE researchers

\* filtered: the three filters applied one after the other
FilterMock(mock_researchers, topic, institution, country) ==
    FilterByCountry(
        FilterByInstitution(FilterByTopic(mock_researchers, topic), institution),
        country)

\* ------------------------------------------------------------------------
\* app.py extract_authors_from_works
\* ------------------------------------------------------------------------
\* `if not author`: the authorship has no author, or an empty one
NoAuthor(authorship) ==
    "author" \notin DOMAIN authorship \/ DOMAIN authorship.author = {}

\* an entry that takes its affiliation from the last listed institution
AuthorEntryLastInstitution(authorship) ==
    LET author == authorship.author
        institutions == Get(authorship, "institutions", <<>>)
    IN [name |-> Get(author, "display_name", "Unknown"),
        link |-> author.id,
        affiliation |-> IF Len(institutions) > 0
                        THEN Get(institutions[Len(institutions)], "display_name", "N/A")
                        ELSE "N/A",
        field |-> "AI Research",
        works_count |-> None,
        cited_by_count |-> None]

\* the entry stored under authors_dict[author_id]
AuthorEntry(authorship) ==
    LET author == authorship.author
        institutions == Get(authorship, "institutions", <<>>)
    IN [name |-> Get(author, "display_name", "Unknown"),
        link |-> author.id,
        affiliation |-> IF Len(institutions) > 0
                        THEN Get(institutions[1], "display_name", "N/A")
                        ELSE "N/A",
        field |-> "AI Research",
        works_count |-> None,
        cited_by_count |-> None]

\* a scan that does not look the author id up in authors_dict
SkipAuthorNoLookup(authorship, authors_dict) ==
    ~Truthy(Get(authorship.author, "id", None))

\* `if not author_id or author_id in authors_dict`
SkipAuthor(authorship, authors_dict) ==
    \/ ~Truthy(Get(authorship.author, "id", None))
    \/ \E i \in DOMAIN authors_dict : authors_dict[i].link = authorship.author.id

\* the inner loop over one work's authorships; authors_dict is kept as the
\* sequence of its values in insertion order
RECURSIVE ScanAuthorships(_, _, _)
ScanAuthorships(authorships, authors_dict, max_authors) ==
    IF authorships = <<>> THEN authors_dict
    ELSE IF NoAuthor(Head(authorships)) \/ SkipAuthor(Head(authorships), authors_dict)
         THEN ScanAuthorships(Tail(authorships), authors_dict, max_authors)
         ELSE LET added == Append(authors_dict, AuthorEntry(Head(authorships)))
              IN IF Len(added) >= max_authors
                 THEN added
                 ELSE ScanAuthorships(Tail(authorships), added, max_authors)

\* the outer loop over the works
RECURSIVE ScanWorks(_, _, _)
ScanWorks(works, authors_dict, max_authors) ==
    IF works = <<>> THEN authors_dict
    ELSE LET scanned == ScanAuthorships(Get(Head(works), "authorships", <<>>),
                                        authors_dict, max_authors)
         IN IF Len(scanned) >= max_authors
            THEN scanned
            ELSE ScanWorks(Tail(works), scanned, max_authors)

extract_authors_from_works(works_response, max_authors) ==
    IF "results" \notin DOMAIN works_response THEN <<>>
    ELSE Take(ScanWorks(works_response.results, <<>>, max_authors), max_authors)

\* ------------------------------------------------------------------------
\* callopenalex.py OpenAlexAPI._make_request
\* ------------------------------------------------------------------------
\* response.raise_for_status() raises on a 4xx or 5xx status
RaisesForStatus(status_code) == status_code >= 400 /\ status_code <= 599

\* The outcome of _make_request for the reply of its one requests.get: it
\* raises on a transport error, on an error status and on a payload that is
\* no JSON (both except clauses re-raise), else returns response.json().
MakeRequest(reply) ==
    IF "error" \in DOMAIN reply THEN [raised |-> TRUE]
    ELSE IF RaisesForStatus(reply.status_code) THEN [raised |-> TRUE]
    ELSE IF "body" \notin DOMAIN reply THEN [raised |-> TRUE]
    ELSE [raised |-> FALSE, value |-> reply.body]

\* an outbound call, as recorded with the reply it got
BiblioCall(path, reply) == [api |-> "openalex", path |-> path, reply |-> reply]
CompletionCall(path, reply) == [api |-> "openai", path |-> path, reply |-> reply]

\* a handler that leaves the completion call out
CompletionCallsLeftOut(path, completion) == <<>>

\* The completion client is built inside each handler's try block; without
\* an API key OpenAI(api_key=None) raises there and no request is sent.  The
\* attempt is recorded all the same, with the reply no_api_key.
CompletionCalls(path, completion) == <<CompletionCall(path, completion)>>

\* whether a recorded call put a request on the wire
Sent(call) == Get(call.reply, "error", "") # "no_api_key"

\* an error swallowed into a normal return with an empty story
HttpErrorSwallowed(status_code) == [status |-> 200, body |-> [story |-> ""]]

\* a handler's normal return, and FastAPI's answer to an HTTPException
Ok(body) == [status |-> 200, body |-> body]
HttpError(status_code) == [status |-> status_code, body |-> [detail |-> "error"]]

\* ------------------------------------------------------------------------
\* str.strip()
\* ------------------------------------------------------------------------
IsSpace(c) == c \in {" ", "\n", "\t"}

RECURSIVE LStrip(_)
LStrip(s) == IF Len(s) > 0 /\ IsSpace(Head(s)) THEN LStrip(Tail(s)) ELSE s

RECURSIVE RStrip(_)
RStrip(s) ==
    IF Len(s) > 0 /\ IsSpace(SubSeq(s, Len(s), Len(s)))
    THEN RStrip(SubSeq(s, 1, Len(s) - 1))
    ELSE s

Strip(s) == RStrip(LStrip(s))

\* ------------------------------------------------------------------------
\* app.py /api/wordcloud, /api/trending, /api/researchers
\* ------------------------------------------------------------------------
get_wordcloud(reply) ==
    LET data == get_trending_topics(reply, "wordcloud")
    IN [response |-> IF TruthyList(data) THEN Ok([words |-> data.value])
                     ELSE Ok([words |-> get_mock_wordcloud]),
        calls |-> <<BiblioCall("/works", reply)>>]

get_trending(reply) ==
    LET data == get_trending_topics(reply, "wordcloud")
    IN [response |->
            IF TruthyList(data)
            THEN Ok([i \in DOMAIN data.value |->
                        [topic |-> data.value[i].text, count |-> data.value[i].value]])
            ELSE Ok(get_mock_trending),
        calls |-> <<BiblioCall("/works", reply)>>]

get_researchers(topic, institution, country, reply) ==
    LET data == search_researchers(reply)
    IN [response |->
            IF TruthyList(data)
            THEN Ok([researchers |-> data.value])
            ELSE Ok([researchers |->
                        FilterMock(get_mock_researchers, topic, institution, country)]),
        calls |-> <<BiblioCall("/authors", reply)>>]

\* ------------------------------------------------------------------------
\* app.py chat_with_rhett and /api/chat
\* ------------------------------------------------------------------------
\* the string chat_with_rhett returns from its except branch (shortened)
RhettPlaceholder ==
    "Whoops, my Terrier nose hit a snag fetching OpenAI just now."

\* a chat_with_rhett that hands the error text back instead of the placeholder
ChatWithRhettErrorText(completion) ==
    IF "text" \in DOMAIN completion THEN Strip(completion.text)
    ELSE Get(completion, "error", "no text")

\* chat_with_rhett given the outcome of its one completion call: the text of
\* the first output, stripped; the placeholder on any exception (no API key,
\* a failed call, a response with no text in it).
chat_with_rhett(completion) ==
    IF "text" \in DOMAIN completion THEN Strip(completion.text)
    ELSE RhettPlaceholder

\* one entry of paper_info
PaperInfo(w) ==
    [title |-> Get(w, "title", None),
     year |-> Get(w, "publication_year", None),
     citations |-> Get(w, "cited_by_count", None),
     link |-> Get(w, "id", None)]

\* callopenalex.py get_trending_works: a search_works call for the works
\* published in the last `days` days, most cited first
get_trending_works(days, per_page, reply) ==
    [api |-> "openalex", path |-> "/works", reply |-> reply,
     filter |-> "from_publication_date", days |-> days,
     sort |-> "cited_by_count:desc", per_page |-> per_page]

\* a fallback that names no researcher
ChatFallbackNoResearchers(query) ==
    [summary |-> "Based on your interest in '" \o query
                 \o "', this field is growing rapidly with numerous breakthroughs in AI applications.",
     suggested_researchers |-> <<>>,
     suggested_papers |-> <<>>]

\* the response of chat's except branch
ChatFallback(query) ==
    [summary |-> "Based on your interest in '" \o query
                 \o "', this field is growing rapidly with numerous breakthroughs in AI applications.",
     suggested_researchers |->
        <<[name |-> "Dr. Alice Zhang",
           link |-> "https://scholar.google.com/citations?user=example1",
           affiliation |-> "MIT CSAIL"],
          [name |-> "Prof. Mark Liu",
           link |-> "https://scholar.google.com/citations?user=example2",
           affiliation |-> "Stanford AI Lab"]>>,
     suggested_papers |-> <<>>]

\* chat given its request and the replies of the calls it may make: reply1
\* for search_works, completion for chat_with_rhett, reply2 for
\* get_trending_works (made only when the first lookup gave nothing).
chat(query, reply1, completion, reply2) ==
    LET first == MakeRequest(reply1)
        call1 == <<BiblioCall("/works", reply1)>>
    IN IF first.raised
       THEN [response |-> Ok(ChatFallback(query)), calls |-> call1]
       ELSE
       LET works == first.value
           results == Get(works, "results", <<>>)
           paper_info == [i \in DOMAIN results |-> PaperInfo(results[i])]
           researcher_info == extract_authors_from_works(works, 3)
           summary == chat_with_rhett(completion)
           calls2 == call1 \o CompletionCalls("/responses", completion)
       IN IF Len(researcher_info) = 0 /\ Len(paper_info) = 0
          THEN LET second == MakeRequest(reply2)
                   calls3 == calls2 \o <<get_trending_works(7, 3, reply2)>>
               IN IF second.raised
                  THEN [response |-> Ok(ChatFallback(query)), calls |-> calls3]
                  ELSE LET trending == Get(second.value, "results", <<>>)
                       IN [response |->
                              Ok([summary |-> summary,
                                  suggested_researchers |-> researcher_info,
                                  suggested_papers |->
                                     [i \in DOMAIN trending |-> PaperInfo(trending[i])]]),
                           calls |-> calls3]
          ELSE [response |->
                   Ok([summary |-> summary,
                       suggested_researchers |-> researcher_info,
                       suggested_papers |-> paper_info]),
                calls |-> calls2]

\* ------------------------------------------------------------------------
\* app.py /api/lootbox
\* ------------------------------------------------------------------------
\* the number of capsules drawn: random.sample(..., 5)
SampleSize == 5

\* the citation counts at which a rarity tier starts
SsrFrom == 5000
SrFrom == 1000
RFrom == 200

\* Classify with each threshold excluded from its tier (> for >=)
ClassifyStrict(citations) ==
    IF citations > SsrFrom THEN <<"SSR", "Legendary">>
    ELSE IF citations > SrFrom THEN <<"SR", "Epic">>
    ELSE IF citations > RFrom THEN <<"R", "Rare">>
    ELSE <<"N", "Common">>

\* the if/elif chain that sets rarity and rarity_label
Classify(citations) ==
    IF citations >= SsrFrom THEN <<"SSR", "Legendary">>
    ELSE IF citations >= SrFrom THEN <<"SR", "Epic">>
    ELSE IF citations >= RFrom THEN <<"R", "Rare">>
    ELSE <<"N", "Common">>

\* the display names of the first 3 entries that have one
RECURSIVE NamesOf(_)
NamesOf(entries) ==
    IF entries = <<>> THEN <<>>
    ELSE (IF Truthy(Get(Head(entries), "display_name", None))
          THEN <<Head(entries).display_name>> ELSE <<>>)
         \o NamesOf(Tail(entries))

AuthorsOf(paper) ==
    LET authorships == Take(Get(paper, "authorships", <<>>), 3)
    IN NamesOf([i \in DOMAIN authorships |-> Get(authorships[i], "author", <<>>)])

\* concepts that leave the unnamed tags out before cutting to three
ConceptsOfFirstNamed(paper) == Take(NamesOf(Get(paper, "concepts", <<>>)), 3)

ConceptsOf(paper) == NamesOf(Take(Get(paper, "concepts", <<>>), 3))

\* the capsule built from one selected paper
Capsule(paper) ==
    LET citations == Get(paper, "cited_by_count", 0)
    IN [title |-> Get(paper, "title", "Unknown Title"),
        year |-> Get(paper, "publication_year", "N/A"),
        citations |-> citations,
        link |-> Get(paper, "id", ""),
        rarity |-> Classify(citations)[1],
        rarity_label |-> Classify(citations)[2],
        authors |-> AuthorsOf(paper),
        concepts |-> ConceptsOf(paper),
        abstract |-> Get(paper, "abstract_inverted_index", None)]

\* draws that may take an index twice: those of random.sample, and the one
\* that takes the first index every time
SamplesWithReplacement(n, k) ==
    {s \in [1..k -> 1..n] :
        \/ \A i, j \in 1..k : i # j => s[i] # s[j]
        \/ \A i \in 1..k : s[i] = 1}

\* the possible results of random.sample(range(n), k), as index sequences
Samples(n, k) ==
    {s \in [1..k -> 1..n] : \A i, j \in 1..k : i # j => s[i] # s[j]}

Min(a, b) == IF a < b THEN a ELSE b

\* get_lootbox without its except branch: a raised call becomes a 500
GetLootboxUnguarded(reply, picks, mock_picks) ==
    LET works == MakeRequest(reply)
        calls == <<BiblioCall("/works", reply)>>
    IN IF works.raised \/ Len(Get(works.value, "results", <<>>)) = 0
       THEN [response |-> HttpError(500), calls |-> calls]
       ELSE [response |->
                Ok([capsules |-> [i \in DOMAIN picks |->
                                     Capsule(works.value.results[picks[i]])]]),
             calls |-> calls]

\* get_lootbox without the test for an empty page: it samples the empty list
GetLootboxNoEmptyTest(reply, picks, mock_picks) ==
    LET works == MakeRequest(reply)
        calls == <<BiblioCall("/works", reply)>>
    IN IF works.raised \/ "results" \notin DOMAIN works.value
       THEN [response |->
                Ok([capsules |-> [i \in DOMAIN mock_picks |-> mock_capsules[mock_picks[i]]]]),
             calls |-> calls]
       ELSE [response |->
                Ok([capsules |-> [i \in DOMAIN picks |->
                                     Capsule(works.value.results[picks[i]])]]),
             calls |-> calls]

\* get_lootbox given the reply of search_works and the two draws random.sample
\* may make: picks among the works of the page, mock_picks among the mock
\* capsules (the one the branch taken does not make is not read).
get_lootbox(reply, picks, mock_picks) ==
    LET works == MakeRequest(reply)
        fallback == Ok([capsules |-> [i \in DOMAIN mock_picks |-> mock_capsules[mock_picks[i]]]])
        calls == <<BiblioCall("/works", reply)>>
    IN IF works.raised
       THEN [response |-> fallback, calls |-> calls]
       ELSE IF Len(Get(works.value, "results", <<>>)) = 0
       THEN [response |-> fallback, calls |-> calls]
       ELSE LET all_papers == works.value.results
            IN [response |->
                   Ok([capsules |-> [i \in DOMAIN picks |-> Capsule(all_papers[picks[i]])]]),
                calls |-> calls]

\* ------------------------------------------------------------------------
\* app.py /api/rsti-advisor
\* ------------------------------------------------------------------------
\* the system message that opens a conversation (its text shortened)
SystemMessage ==
    [role |-> "system",
     content |-> "You are Mascot Rhett, Boston University's terrier mascot turned AI research guide."]

OpeningMessage(major, rsti_type) ==
    [role |-> "user",
     content |-> "My academic background is "
                 \o (IF Truthy(major) THEN major ELSE "your field")
                 \o " and my RSTI type is " \o rsti_type \o ". Let's begin."]

ChoiceMessage(choice) ==
    [role |-> "user", content |-> "I choose option " \o choice \o "."]

\* messages that take the choice into a new conversation as well
AdvisorMessagesWithChoice(rsti_type, major, conversation_history, choice) ==
    (IF Len(conversation_history) = 0
     THEN <<SystemMessage, OpeningMessage(major, rsti_type)>>
     ELSE conversation_history)
    \o (IF Truthy(choice) THEN <<ChoiceMessage(choice)>> ELSE <<>>)

\* the messages sent to the completion API
AdvisorMessages(rsti_type, major, conversation_history, choice) ==
    IF Len(conversation_history) = 0
    THEN <<SystemMessage, OpeningMessage(major, rsti_type)>>
    ELSE IF Truthy(choice)
         THEN Append(conversation_history, ChoiceMessage(choice))
         ELSE conversation_history

\* the mark of a final recommendation (the source has a dart emoji here)
FinalMark == "(dart)"

IsFinal(reply) ==
    StrIn(FinalMark, reply) \/ (StrIn("Final", reply) /\ StrIn("Recommendation", reply))

\* reply.split('\n')
RECURSIVE SplitLines(_, _)
SplitLines(s, line) ==
    IF Len(s) = 0 THEN <<line>>
    ELSE IF Head(s) = "\n" THEN <<line>> \o SplitLines(Tail(s), "")
    ELSE SplitLines(Tail(s), line \o Head(s))

IsDigit(c) == c \in {"0", "1", "2", "3", "4", "5", "6", "7", "8", "9"}

\* line.lstrip('0123456789.-*) ') with the bullet of the source written *
RECURSIVE LStripBullet(_)
LStripBullet(s) ==
    IF Len(s) > 0 /\ (IsDigit(Head(s)) \/ Head(s) \in {".", "-", "*", ")", " "})
    THEN LStripBullet(Tail(s))
    ELSE s

\* the loop that collects up to 3 topics from the numbered or bulleted lines
RECURSIVE CollectTopics(_, _)
CollectTopics(lines, recommended_topics) ==
    IF lines = <<>> THEN recommended_topics
    ELSE LET line == Strip(Head(lines))
             topic == Strip(LStripBullet(line))
         IN CollectTopics(
                Tail(lines),
                IF /\ Len(line) > 0
                   /\ (IsDigit(Head(line)) \/ Head(line) \in {"-", "*"})
                   /\ Len(topic) > 0
                   /\ Len(recommended_topics) < 3
                THEN Append(recommended_topics, topic)
                ELSE recommended_topics)

\* the response of rsti_advisor's except branch
AdvisorFallback(conversation_history) ==
    [reply |-> "Woof! My tail got tangled for a moment. Let me help you explore research directions in AI and machine learning!",
     conversation_history |-> conversation_history,
     is_final |-> FALSE,
     recommended_topics |-> <<>>]

\* rsti_advisor given its request and the outcome of its one completion call
rsti_advisor(rsti_type, major, conversation_history, choice, completion) ==
    LET messages == AdvisorMessages(rsti_type, major, conversation_history, choice)
        calls == CompletionCalls("/chat/completions", completion)
    IN IF "text" \notin DOMAIN completion
       THEN [response |-> Ok(AdvisorFallback(conversation_history)), calls |-> calls]
       ELSE LET reply == Strip(completion.text)
                is_final == IsFinal(reply)
            IN [response |->
                   Ok([reply |-> reply,
                       conversation_history |->
                          Append(messages, [role |-> "assistant", content |-> reply]),
                       is_final |-> is_final,
                       recommended_topics |->
                          IF is_final THEN CollectTopics(SplitLines(reply, ""), <<>>)
                          ELSE <<>>]),
                calls |-> calls]

\* ------------------------------------------------------------------------
\* app.py /api/lifepath
\* ------------------------------------------------------------------------
\* paths, and the keys of pathDescriptions
Paths == <<"academic", "industry", "startup">>

\* descriptions that know a fourth path
PathDescriptionsOfFour ==
    [academic |-> "Academic/Research Track - becoming a professor or researcher",
     industry |-> "Industry Track - joining a top tech company as a research scientist or engineer",
     startup |-> "Startup/Entrepreneurship Track - founding or joining an early-stage startup",
     pirate |-> "Pirate Track"]

PathDescriptions ==
    [academic |-> "Academic/Research Track - becoming a professor or researcher",
     industry |-> "Industry Track - joining a top tech company as a research scientist or engineer",
     startup |-> "Startup/Entrepreneurship Track - founding or joining an early-stage startup"]

\* generate_life_path given its pathPreference, the index random.choice
\* draws and the outcome of its one completion call.  Every exception of the
\* body (no API key, an unknown path, a failed call) becomes
\* HTTPException(500).
generate_life_path(pathPreference, choice, completion) ==
    LET pathType == IF pathPreference = "random" THEN Paths[choice] ELSE pathPreference
    IN IF Get(completion, "error", "") = "no_api_key"
       THEN [response |-> HttpError(500),
             calls |-> CompletionCalls("/chat/completions", completion),
             pathType |-> None]
       ELSE IF pathType \notin DOMAIN PathDescriptions
       THEN [response |-> HttpError(500), calls |-> <<>>, pathType |-> pathType]
       ELSE IF "text" \notin DOMAIN completion
       THEN [response |-> HttpError(500),
             calls |-> CompletionCalls("/chat/completions", completion),
             pathType |-> pathType]
       ELSE [response |-> Ok([story |-> completion.text]),
             calls |-> CompletionCalls("/chat/completions", completion),
             pathType |-> pathType]

\* GET /
root == [response |-> Ok([message |-> "AI Research Collaboration Dashboard API"]),
         calls |-> <<>>]

\* ========================================================================
\* The inputs of the model: what the clients send and what the two
\* upstream APIs answer.
\* ========================================================================
\* the replies that carry no page: a raised call (time-out, connection
\* error), an error status, a 200 whose payload is no JSON
FailedReplies ==
    {[error |-> "timeout"], [status_code |-> 500], [status_code |-> 200]}

PageReply(body) == [status_code |-> 200, body |-> body]

\* a 200 whose JSON lacks the results key
NoResultsBody == [meta |-> "count"]

\* the outcomes of a completion call: no key configured, a failed call, a
\* response without text, a text
Completions(texts) ==
    {[error |-> "no_api_key"], [error |-> "api_error"], [output |-> "empty"]}
    \cup {[text |-> t] : t \in texts}

\* all sequences over S of a length up to n
SeqsUpTo(S, n) == UNION {[1..m -> S] : m \in 0..n}

\* --- /works pages read by get_trending_topics ---------------------------
NLP2 == [display_name |-> "NLP", level |-> 2]
NLP1 == [display_name |-> "NLP", level |-> 1]
NLPx == [display_name |-> "NLP"]
CV3 == [display_name |-> "Vision", level |-> 3]
CV0 == [display_name |-> "Vision", level |-> 0]
Empty2 == [display_name |-> "", level |-> 2]
NoName2 == [level |-> 2]

ConceptSet == {NLP2, NLP1, NLPx, CV3, CV0, Empty2, NoName2}

TopicWorks ==
    {[id |-> "W1", concepts |-> <<NLP2, CV3, NLP1>>],
     [id |-> "W2", concepts |-> <<CV3, CV0, NoName2>>],
     [id |-> "W3", concepts |-> <<NLPx, CV0>>],
     [id |-> "W4"]}

MaxTopicWorks == 2

TopicReplies ==
    FailedReplies \cup {PageReply(NoResultsBody)}
    \cup {PageReply([results |-> p]) : p \in SeqsUpTo(TopicWorks, MaxTopicWorks)}

\* --- /authors pages read by search_researchers --------------------------
AuthorSet ==
    {[display_name |-> "Ada Lovelace", orcid |-> "https://orcid.org/0000-0001",
      last_known_institution |-> [display_name |-> "MIT", country_code |-> "US"],
      x_concepts |-> <<[display_name |-> "NLP"], [display_name |-> "Vision"]>>,
      cited_by_count |-> 900, works_count |-> 40],
     [display_name |-> "Alan Turing", cited_by_count |-> 5000]}

MaxAuthorPage == 2

AuthorReplies ==
    FailedReplies \cup {PageReply(NoResultsBody)}
    \cup {PageReply([results |-> p]) : p \in SeqsUpTo(AuthorSet, MaxAuthorPage)}

TopicFilters == {None, "", "ai", "LEARNING", "Vision"}
InstitutionFilters == {None, "mit", "University", "xyz"}
CountryFilters == {None, "us", "UK", "u"}

\* --- /works pages read by chat ------------------------------------------
Ada == [id |-> "A1", display_name |-> "Ada Lovelace"]
Alan == [id |-> "A2", display_name |-> "Alan Turing"]

ChatWorks ==
    {[id |-> "W1", title |-> "Paper one", publication_year |-> 2024, cited_by_count |-> 120,
      authorships |-> <<[author |-> Ada, institutions |-> <<[display_name |-> "MIT"]>>],
                        [author |-> Alan],
                        [author |-> Ada, institutions |-> <<[display_name |-> "BU"]>>]>>],
     [id |-> "W2", title |-> "Paper two", publication_year |-> 2025, cited_by_count |-> 7,
      authorships |-> <<[author |-> Alan, institutions |-> <<>>],
                        [institutions |-> <<[display_name |-> "BU"]>>]>>],
     [id |-> "W3", publication_year |-> 2024, cited_by_count |-> 0]}

MaxChatWorks == 2

ChatReplies ==
    {[error |-> "timeout"], [status_code |-> 500], [status_code |-> 200],
     PageReply(NoResultsBody)}
    \cup {PageReply([results |-> p]) : p \in SeqsUpTo(ChatWorks, MaxChatWorks)}

Queries == {"nlp", "robot vision"}

ChatTexts == {"  Woof! Sniffing out great leads. \n"}

\* --- /works pages read by get_lootbox -----------------------------------
\* The works of an oversample come sorted by cited_by_count, descending
\* (sort="cited_by_count:desc"); a work of kind k has LootCitations[k], and
\* the last kind has no cited_by_count at all.
LootCitations == <<6000, 1000, 200>>

LootKinds == 1..(Len(LootCitations) + 1)

LootWork(i, kind) ==
    LET base == [id |-> "W" \o ToString(i), publication_year |-> 2024]
        people == <<[author |-> [display_name |-> "Ada Lovelace"]],
                    [author |-> [id |-> "A9"]],
                    [author |-> [display_name |-> "Alan Turing"]],
                    [author |-> [display_name |-> "Grace Hopper"]]>>
        tags == <<[display_name |-> "NLP"], [display_name |-> "Vision"],
                  [display_name |-> ""], [display_name |-> "Robots"]>>
    IN IF kind = 1
       THEN [id |-> "W" \o ToString(i), publication_year |-> 2024,
             title |-> "Paper " \o ToString(i), cited_by_count |-> LootCitations[1],
             authorships |-> people, concepts |-> tags,
             abstract_inverted_index |-> "index of W" \o ToString(i)]
       ELSE IF kind = 2
       THEN [id |-> "W" \o ToString(i), publication_year |-> 2024,
             title |-> "Paper " \o ToString(i), cited_by_count |-> LootCitations[2],
             authorships |-> Take(people, 2)]
       ELSE IF kind = 3
       THEN [id |-> "W" \o ToString(i), publication_year |-> 2024,
             cited_by_count |-> LootCitations[3], concepts |-> Take(tags, 1)]
       ELSE base

MaxLootWorks == 6

LootPages ==
    {[i \in DOMAIN kinds |-> LootWork(i, kinds[i])] :
        kinds \in {k \in SeqsUpTo(LootKinds, MaxLootWorks) :
                      \A i, j \in DOMAIN k : i < j => k[i] <= k[j]}}

LootReplies ==
    FailedReplies \cup {[status_code |-> 404], PageReply(NoResultsBody)}
    \cup {PageReply([results |-> p]) : p \in LootPages}

\* --- /api/rsti-advisor and /api/lifepath --------------------------------
Histories ==
    {<<>>,
     <<SystemMessage, OpeningMessage("CS", "INTJ"),
       [role |-> "assistant", content |-> "1) Theory or 2) Systems?"]>>}

Choices == {None, "", "1", "2"}
Majors == {None, "CS"}

AdvisorTexts ==
    {" 1) Theory or 2) Systems?\n",
     "Final Recommendation:\n1. NLP\n- Vision\nGood luck\n2) Robots\n3. Ethics",
     "(dart) go for NLP"}

PathPreferences == {"random", "academic", "industry", "startup", "pirate"}

StoryTexts == {"## Year 1\nYou begin. "}

\* --- the OpenAlexAPI client and the event loop ----------------------------
\* rate_limit, in ticks of the clock (0.1 s)
RateLimit == 2

\* time.time() when the client is constructed: far from 0, the initial
\* last_request_time
StartTime == 5

MaxNow == 11
MaxCalls == 3
MaxRequests == 2
Requests == 1..MaxRequests

\* ========================================================================
\* The state
\* ========================================================================
VARIABLES
    pc,               \* "idle": waiting for a request; "done": one was answered
    request,          \* the inbound request being answered
    calls,            \* the outbound calls made for it, in order, with their replies
    response,         \* the HTTP response sent: [status, body]
    pathType,         \* generate_life_path: the career path used
    works_response,   \* extract_authors_from_works: its argument
    max_authors,      \* extract_authors_from_works: its argument
    researcher_info,  \* extract_authors_from_works: its result
    data,             \* get_trending_topics: the JSON of the /works response
    topics,           \* get_trending_topics: what it returns for data
    citations,        \* get_lootbox: a paper's cited_by_count
    rarity,           \* get_lootbox: the <<rarity, rarity_label>> set for it
    filtered,         \* get_researchers: the list `filtered` of the fallback
    applied,          \* get_researchers: the filters applied to it, in order
    now,              \* time.time(), in ticks
    last_request_time, \* OpenAlexAPI.last_request_time
    client_pc,        \* where the one caller of the OpenAlexAPI client is
    wake,             \* the time at which its time.sleep ends
    outbound,         \* the requests.get calls issued: [at, call]
    op_calls,         \* the number of client operations called
    last_seen,        \* the last_request_time the current call read
    client_result,    \* what the current call gave its caller
    loop_pc,          \* the event loop: where each inbound request is
    loop_route,       \* the event loop: the route of each inbound request
    search_call,      \* OpenAlexAPI: the search operation called, with its arguments
    search_params     \* OpenAlexAPI: the params it hands to _make_request

serverVars == <<pc, request, calls, response, pathType>>
authorVars == <<works_response, max_authors, researcher_info>>
topicVars == <<data, topics>>
rarityVars == <<citations, rarity>>
filterVars == <<filtered, applied>>
clientVars == <<now, last_request_time, client_pc, wake, outbound, op_calls,
                last_seen, client_result>>
loopVars == <<loop_pc, loop_route>>
searchVars == <<search_call, search_params>>
otherVars == <<filterVars, clientVars, loopVars, searchVars>>
vars == <<serverVars, authorVars, topicVars, rarityVars, otherVars>>

NoRequest == [route |-> "none"]

ServerIdle ==
    /\ pc = "idle"
    /\ request = NoRequest
    /\ calls = <<>>
    /\ response = [status |-> 0]
    /\ pathType = None

AuthorsIdle ==
    /\ works_response = [results |-> <<>>]
    /\ max_authors = 0
    /\ researcher_info = NoneResult

TopicsIdle ==
    /\ data = [results |-> <<>>]
    /\ topics = NoneResult

RarityIdle ==
    /\ citations = 0
    /\ rarity = NoneResult

FiltersIdle ==
    /\ filtered = get_mock_researchers
    /\ applied = <<>>

\* the client as OpenAlexAPI.__init__ leaves it, at the time of construction
ClientIdle ==
    /\ now = StartTime
    /\ last_request_time = 0
    /\ client_pc = "idle"
    /\ wake = 0
    /\ outbound = <<>>
    /\ op_calls = 0
    /\ last_seen = 0
    /\ client_result = NoneResult

LoopIdle ==
    /\ loop_pc = [r \in Requests |-> "none"]
    /\ loop_route = [r \in Requests |-> "none"]

SearchIdle ==
    /\ search_call = [operation |-> "none"]
    /\ search_params = <<>>

OthersIdle == FiltersIdle /\ ClientIdle /\ LoopIdle /\ SearchIdle

\* ========================================================================
\* The server: one action per route of app.py
\* ========================================================================
Answer(req, result) ==
    /\ pc' = "done"
    /\ request' = req
    /\ calls' = result.calls
    /\ response' = result.response
    /\ pathType' = Get(result, "pathType", None)
    /\ UNCHANGED <<authorVars, topicVars, rarityVars, otherVars>>

Root ==
    /\ pc = "idle"
    /\ Answer([route |-> "/"], root)

Wordcloud ==
    /\ pc = "idle"
    /\ \E reply \in TopicReplies :
        Answer([route |-> "/api/wordcloud"], get_wordcloud(reply))

Trending ==
    /\ pc = "idle"
    /\ \E reply \in TopicReplies :
        Answer([route |-> "/api/trending"], get_trending(reply))

Researchers ==
    /\ pc = "idle"
    /\ \E topic \in TopicFilters, institution \in InstitutionFilters,
       country \in CountryFilters, reply \in AuthorReplies :
        Answer([route |-> "/api/researchers", topic |-> topic,
                institution |-> institution, country |-> country],
               get_researchers(topic, institution, country, reply))

\* whether chat, given this first reply, goes on to get_trending_works
ChatLooksAgain(reply1) ==
    /\ ~MakeRequest(reply1).raised
    /\ Len(Get(reply1.body, "results", <<>>)) = 0

Chat ==
    /\ pc = "idle"
    /\ \E query \in Queries, reply1 \in ChatReplies, completion \in Completions(ChatTexts) :
        \E reply2 \in (IF ChatLooksAgain(reply1) THEN ChatReplies ELSE {reply1}) :
            Answer([route |-> "/api/chat", query |-> query],
                   chat(query, reply1, completion, reply2))

RstiAdvisor ==
    /\ pc = "idle"
    /\ \E major \in Majors, conversation_history \in Histories, choice \in Choices,
       completion \in Completions(AdvisorTexts) :
        Answer([route |-> "/api/rsti-advisor", rsti_type |-> "INTJ", major |-> major,
                conversation_history |-> conversation_history, choice |-> choice],
               rsti_advisor("INTJ", major, conversation_history, choice, completion))

\* the number of works get_lootbox samples from, 0 when it falls back
LootCount(reply) ==
    IF MakeRequest(reply).raised THEN 0
    ELSE Len(Get(reply.body, "results", <<>>))

Lootbox ==
    /\ pc = "idle"
    /\ \E reply \in LootReplies :
        \E picks \in Samples(LootCount(reply), Min(SampleSize, LootCount(reply))),
           mock_picks \in (IF LootCount(reply) = 0
                           THEN Samples(Len(mock_capsules), SampleSize)
                           ELSE {<<>>}) :
            Answer([route |-> "/api/lootbox"], get_lootbox(reply, picks, mock_picks))

LifePath ==
    /\ pc = "idle"
    /\ \E pathPreference \in PathPreferences, completion \in Completions(StoryTexts) :
        \E choice \in (IF pathPreference = "random" THEN DOMAIN Paths ELSE {1}) :
            Answer([route |-> "/api/lifepath", pathPreference |-> pathPreference],
                   generate_life_path(pathPreference, choice, completion))

\* the response is sent; the server waits for the next request
AwaitRequest ==
    /\ pc = "done"
    /\ pc' = "idle"
    /\ request' = NoRequest
    /\ calls' = <<>>
    /\ response' = [status |-> 0]
    /\ pathType' = None
    /\ UNCHANGED <<authorVars, topicVars, rarityVars, otherVars>>

Init == ServerIdle /\ AuthorsIdle /\ TopicsIdle /\ RarityIdle /\ OthersIdle

Next ==
    \/ Root
    \/ Wordcloud
    \/ Trending
    \/ Researchers
    \/ Chat
    \/ RstiAdvisor
    \/ Lootbox
    \/ LifePath
    \/ AwaitRequest

Spec == Init /\ [][Next]_vars

\* ========================================================================
\* The rarity classification on its own: every citation count up to
\* MaxCitations is classified.
\* ========================================================================
MaxCitations == 5200

ClassifyPaper ==
    /\ rarity.is_none
    /\ rarity' = Some(Classify(citations))
    /\ UNCHANGED <<citations, serverVars, authorVars, topicVars, otherVars>>

InitClassify ==
    /\ citations \in 0..MaxCitations
    /\ rarity = NoneResult
    /\ ServerIdle /\ AuthorsIdle /\ TopicsIdle /\ OthersIdle

SpecClassify == InitClassify /\ [][ClassifyPaper]_vars

\* ========================================================================
\* extract_authors_from_works on its own: a /works page is put together
\* work by work and authorship by authorship, then the authors are
\* extracted from it.
\* ========================================================================
MIT == [display_name |-> "MIT"]
BU == [display_name |-> "BU"]

AuthorshipSet ==
    {[author |-> Ada, institutions |-> <<MIT>>],
     [author |-> Ada, institutions |-> <<BU, MIT>>],
     [author |-> Alan],
     [institutions |-> <<BU>>],
     [author |-> [display_name |-> "Anonymous"], institutions |-> <<MIT>>],
     [author |-> [id |-> "A3"], institutions |-> <<[country_code |-> "US"]>>]}

\* the works and authorships a page may hold, and the largest max_authors
MaxAuthorItems == 5
MaxK == 3

\* the number of works and authorships of a page
RECURSIVE AuthorItems(_)
AuthorItems(works) ==
    IF works = <<>> THEN 0
    ELSE 1 + Len(Get(Head(works), "authorships", <<>>)) + AuthorItems(Tail(works))

AuthorsBuilding ==
    /\ researcher_info.is_none
    /\ "results" \in DOMAIN works_response
    /\ AuthorItems(works_response.results) < MaxAuthorItems

AuthorsAddWork ==
    /\ AuthorsBuilding
    /\ \E work \in {[id |-> "W"], [id |-> "W", authorships |-> <<>>]} :
          works_response' = [results |-> Append(works_response.results, work)]
    /\ UNCHANGED <<max_authors, researcher_info, serverVars, topicVars, rarityVars, otherVars>>

AuthorsAddAuthorship ==
    /\ AuthorsBuilding
    /\ Len(works_response.results) > 0
    /\ LET n == Len(works_response.results)
           last == works_response.results[n]
       IN /\ "authorships" \in DOMAIN last
          /\ \E authorship \in AuthorshipSet :
                works_response' =
                    [results |-> [works_response.results EXCEPT ![n] =
                        [last EXCEPT !.authorships = Append(@, authorship)]]]
    /\ UNCHANGED <<max_authors, researcher_info, serverVars, topicVars, rarityVars, otherVars>>

\* the page has no results key
AuthorsDropResults ==
    /\ AuthorsBuilding
    /\ works_response.results = <<>>
    /\ works_response' = NoResultsBody
    /\ UNCHANGED <<max_authors, researcher_info, serverVars, topicVars, rarityVars, otherVars>>

ExtractAuthors ==
    /\ researcher_info.is_none
    /\ \E k \in 0..MaxK :
          /\ max_authors' = k
          /\ researcher_info' = Some(extract_authors_from_works(works_response, k))
    /\ UNCHANGED <<works_response, serverVars, topicVars, rarityVars, otherVars>>

InitAuthors == ServerIdle /\ AuthorsIdle /\ TopicsIdle /\ RarityIdle /\ OthersIdle

NextAuthors ==
    \/ AuthorsAddWork
    \/ AuthorsAddAuthorship
    \/ AuthorsDropResults
    \/ ExtractAuthors

SpecAuthors == InitAuthors /\ [][NextAuthors]_vars

\* ========================================================================
\* The topic aggregation of get_trending_topics on its own: the JSON of a
\* /works response is put together work by work and concept by concept,
\* then aggregated.
\* ========================================================================
\* the works and concepts a page may hold beside a survey work, and the
\* number of concepts of the largest survey work
MaxTopicItems == 4
MaxSurvey == 31

\* a work tagged with n distinct concepts of level 2
SurveyWork(n) ==
    [id |-> "survey",
     concepts |-> [i \in 1..n |-> [display_name |-> "T" \o ToString(i), level |-> 2]]]

RECURSIVE TopicItems(_)
TopicItems(works) ==
    IF works = <<>> THEN 0
    ELSE (IF Get(Head(works), "id", "") = "survey" THEN 0
          ELSE 1 + Len(Get(Head(works), "concepts", <<>>)))
         + TopicItems(Tail(works))

TopicsBuilding ==
    /\ topics.is_none
    /\ "results" \in DOMAIN data
    /\ TopicItems(data.results) < MaxTopicItems

TopicsAddWork ==
    /\ TopicsBuilding
    /\ \E work \in {[id |-> "W"], [id |-> "W", concepts |-> <<>>]} :
          data' = [results |-> Append(data.results, work)]
    /\ UNCHANGED <<topics, serverVars, authorVars, rarityVars, otherVars>>

TopicsAddConcept ==
    /\ TopicsBuilding
    /\ Len(data.results) > 0
    /\ LET n == Len(data.results)
           last == data.results[n]
       IN /\ "concepts" \in DOMAIN last
          /\ last.id # "survey"
          /\ \E concept \in ConceptSet :
                data' = [results |-> [data.results EXCEPT ![n] =
                            [last EXCEPT !.concepts = Append(@, concept)]]]
    /\ UNCHANGED <<topics, serverVars, authorVars, rarityVars, otherVars>>

TopicsAddSurvey ==
    /\ TopicsBuilding
    /\ \A i \in DOMAIN data.results : data.results[i].id # "survey"
    /\ \E n \in {TopN - 1, MaxSurvey} :
          data' = [results |-> Append(data.results, SurveyWork(n))]
    /\ UNCHANGED <<topics, serverVars, authorVars, rarityVars, otherVars>>

TopicsDropResults ==
    /\ TopicsBuilding
    /\ data.results = <<>>
    /\ data' = NoResultsBody
    /\ UNCHANGED <<topics, serverVars, authorVars, rarityVars, otherVars>>

AggregateTopics ==
    /\ topics.is_none
    /\ topics' = get_trending_topics(PageReply(data), "wordcloud")
    /\ UNCHANGED <<data, serverVars, authorVars, rarityVars, otherVars>>

InitTopics == ServerIdle /\ AuthorsIdle /\ TopicsIdle /\ RarityIdle /\ OthersIdle

NextTopics ==
    \/ TopicsAddWork
    \/ TopicsAddConcept
    \/ TopicsAddSurvey
    \/ TopicsDropResults
    \/ AggregateTopics

SpecTopics == InitTopics /\ [][NextTopics]_vars

\* ========================================================================
\* The claims
\* ========================================================================
\* the answered request, its route, and the calls of one API made for it
Answered(route) == pc = "done" /\ request.route = route

CallsTo(api) == SelectSeq(calls, LAMBDA c : c.api = api)

\* an upstream call that failed: it raised, came back with a status other
\* than success, or came back with a payload that is no JSON (the bibliographic
\* side) or holds no text (the completion side)
CallFailed(c) ==
    \/ "error" \in DOMAIN c.reply
    \/ c.api = "openalex" /\ (c.reply.status_code # 200 \/ "body" \notin DOMAIN c.reply)
    \/ c.api = "openai" /\ "text" \notin DOMAIN c.reply

\* the threshold table of the rarity tiers, highest threshold first
ThresholdTable ==
    <<[from |-> 5000, rarity |-> "SSR", rarity_label |-> "Legendary"],
      [from |-> 1000, rarity |-> "SR", rarity_label |-> "Epic"],
      [from |-> 200, rarity |-> "R", rarity_label |-> "Rare"],
      [from |-> 0, rarity |-> "N", rarity_label |-> "Common"]>>

\* the first row of the table whose threshold the count reaches
TableRow(count) ==
    ThresholdTable[CHOOSE i \in DOMAIN ThresholdTable :
                      /\ count >= ThresholdTable[i].from
                      /\ \A j \in 1..(i - 1) : count < ThresholdTable[j].from]

\* the tiers whose citation range holds the count
TiersOf(count) ==
    {t \in {"SSR", "SR", "R", "N"} :
        \/ t = "SSR" /\ count >= 5000
        \/ t = "SR" /\ count >= 1000 /\ count < 5000
        \/ t = "R" /\ count >= 200 /\ count < 1000
        \/ t = "N" /\ count < 200}

\* C1: on /api/wordcloud, /api/trending, /api/researchers, /api/chat,
\* /api/rsti-advisor and /api/lootbox every response has status 200, and
\* when an upstream call of the request failed the response carries the
\* fallback data of its route.
FallbackRoutes ==
    {"/api/wordcloud", "/api/trending", "/api/researchers", "/api/chat",
     "/api/rsti-advisor", "/api/lootbox"}

CarriesFallback ==
    LET body == response.body
    IN CASE request.route = "/api/wordcloud" -> body.words = get_mock_wordcloud
         [] request.route = "/api/trending" -> body = get_mock_trending
         [] request.route = "/api/researchers" ->
                \A i \in DOMAIN body.researchers :
                    \E j \in DOMAIN get_mock_researchers :
                        body.researchers[i] = get_mock_researchers[j]
         [] request.route = "/api/chat" ->
                IF \E i \in DOMAIN calls : calls[i].api = "openalex" /\ CallFailed(calls[i])
                THEN body = ChatFallback(request.query)
                ELSE body.summary = RhettPlaceholder
         [] request.route = "/api/rsti-advisor" ->
                body = AdvisorFallback(request.conversation_history)
         [] request.route = "/api/lootbox" ->
                \A i \in DOMAIN body.capsules :
                    \E j \in DOMAIN mock_capsules : body.capsules[i] = mock_capsules[j]

C1_UpstreamFailureGives200WithFallback ==
    (pc = "done" /\ request.route \in FallbackRoutes) =>
        /\ response.status = 200
        /\ (\E i \in DOMAIN calls : CallFailed(calls[i])) => CarriesFallback

C1_Witness ==
    /\ Answered("/api/chat")
    /\ Len(calls) = 2
    /\ ~CallFailed(calls[1])
    /\ Get(calls[2].reply, "error", "") = "api_error"
    /\ response.status = 200
    /\ response.body.summary = RhettPlaceholder

\* C2: the rarity set for a paper is the row of the threshold table, read
\* highest threshold first, that its citation count reaches: SSR/Legendary
\* from 5000, SR/Epic from 1000 to 4999, R/Rare from 200 to 999, N/Common
\* below 200; exactly one tier applies to every count.
C2_ClassifyMatchesTable ==
    ~rarity.is_none =>
        /\ rarity.value = <<TableRow(citations).rarity, TableRow(citations).rarity_label>>
        /\ TiersOf(citations) = {rarity.value[1]}
        /\ citations = 5000 => rarity.value[1] = "SSR"
        /\ citations = 4999 => rarity.value[1] = "SR"
        /\ citations = 1000 => rarity.value[1] = "SR"
        /\ citations = 999 => rarity.value[1] = "R"
        /\ citations = 200 => rarity.value[1] = "R"
        /\ citations = 199 => rarity.value[1] = "N"
        /\ citations = 0 => rarity.value[1] = "N"

C2_Witness ==
    /\ ~rarity.is_none
    /\ citations = 4999
    /\ rarity.value = <<"SR", "Epic">>

\* C3: every capsule of every /api/lootbox response has the rarity and the
\* rarity_label of the threshold table's row for its own citations.
C3_EveryCapsuleMatchesTable ==
    Answered("/api/lootbox") =>
        \A i \in DOMAIN response.body.capsules :
            LET capsule == response.body.capsules[i]
            IN /\ capsule.rarity = TableRow(capsule.citations).rarity
               /\ capsule.rarity_label = TableRow(capsule.citations).rarity_label

\* C4: extract_authors_from_works returns at most max_authors entries, no
\* two with the same link, in the order in which their ids are first met
\* when the works are scanned in page order and the authorships of a work
\* in listed order: the entries are the first max_authors distinct ids.
\* the places <<work, authorship>> of the page that name an author id
IdPlaces ==
    LET results == Get(works_response, "results", <<>>)
    IN {p \in UNION {{<<w, a>> : a \in DOMAIN Get(results[w], "authorships", <<>>)} :
                        w \in DOMAIN results} :
           LET authorship == results[p[1]].authorships[p[2]]
           IN /\ "author" \in DOMAIN authorship
              /\ "id" \in DOMAIN authorship.author
              /\ authorship.author.id # ""}

IdAt(p) == works_response.results[p[1]].authorships[p[2]].author.id

\* place p is scanned before place q
ScannedBefore(p, q) == p[1] < q[1] \/ (p[1] = q[1] /\ p[2] < q[2])

\* the places where an id is met for the first time
FirstPlaces ==
    {p \in IdPlaces : \A q \in IdPlaces : IdAt(q) = IdAt(p) => ~ScannedBefore(q, p)}

\* the number of distinct ids first met before place p, plus one
RankOf(p) == 1 + Cardinality({q \in FirstPlaces : ScannedBefore(q, p)})

C4_AuthorsCappedDistinctFirstSeen ==
    ~researcher_info.is_none =>
        LET out == researcher_info.value
        IN /\ Len(out) <= max_authors
           /\ Len(out) = Min(max_authors, Cardinality(FirstPlaces))
           /\ \A i, j \in DOMAIN out : i # j => out[i].link # out[j].link
           /\ \A i \in DOMAIN out :
                 \E p \in FirstPlaces : RankOf(p) = i /\ out[i].link = IdAt(p)

\* one work with 3 authorships, two of them of the same author, and a
\* max_authors of 2 or more: exactly 2 entries
C4_Witness ==
    /\ ~researcher_info.is_none
    /\ max_authors >= 2
    /\ "results" \in DOMAIN works_response
    /\ Len(works_response.results) = 1
    /\ Len(Get(works_response.results[1], "authorships", <<>>)) = 3
    /\ Cardinality(IdPlaces) = 3
    /\ Cardinality(FirstPlaces) = 2
    /\ Len(researcher_info.value) = 2

\* the topic list of get_trending_topics, and the concepts of the page
TopicList == topics.value

ConceptPlaces ==
    LET results == Get(data, "results", <<>>)
    IN UNION {{<<w, c>> : c \in DOMAIN Get(results[w], "concepts", <<>>)} :
                 w \in DOMAIN results}

ConceptAt(p) == data.results[p[1]].concepts[p[2]]

\* the places of the page tagged with this name at level 2 or above
CountedPlaces(name) ==
    {p \in ConceptPlaces :
        /\ "display_name" \in DOMAIN ConceptAt(p)
        /\ ConceptAt(p).display_name = name
        /\ "level" \in DOMAIN ConceptAt(p)
        /\ ConceptAt(p).level >= 2}

\* the places of the page whose tag is counted: a name, and level 2 or above
CountedTags ==
    {q \in ConceptPlaces :
        /\ Get(ConceptAt(q), "display_name", "") # ""
        /\ Get(ConceptAt(q), "level", 0) >= 2}

\* for every name the page tags at level 2 or above, the number of such tags
TagCounts ==
    LET name == [p \in CountedTags |-> ConceptAt(p).display_name]
    IN [n \in {name[p] : p \in DOMAIN name} |->
           Cardinality({p \in DOMAIN name : name[p] = n})]

\* C5: the topic list of get_trending_topics has at most 30 entries and its
\* counts do not increase from one entry to the next.
C5_TopicsCappedAndSorted ==
    ~topics.is_none =>
        /\ Len(TopicList) <= 30
        /\ \A i \in 1..(Len(TopicList) - 1) : TopicList[i].value >= TopicList[i + 1].value

\* more than 30 names were counted and the list holds 30 of them
C5_Witness ==
    /\ ~topics.is_none
    /\ Cardinality({ConceptAt(p).display_name : p \in
                       {q \in ConceptPlaces : Get(ConceptAt(q), "level", 0) >= 2
                                              /\ Get(ConceptAt(q), "display_name", "") # ""}}) > 30
    /\ Len(TopicList) = 30
    /\ TopicList[1].value > TopicList[30].value

\* C6: no concept tag of a level below 2, or of no level, adds to a count:
\* a name is listed only if the page tags it at level 2 or above, and its
\* count is no more than the number of such tags.
C6_LowLevelTagsNotCounted ==
    ~topics.is_none =>
        \A count \in {TagCounts} :
            \A i \in DOMAIN TopicList :
                /\ TopicList[i].text \in DOMAIN count
                /\ TopicList[i].value <= count[TopicList[i].text]

\* a name tagged at level 2 once and once more with no level, beside a name
\* tagged at level 0 only
C6_Witness ==
    /\ ~topics.is_none
    /\ \E i \in DOMAIN TopicList :
          /\ TopicList[i].text = "NLP"
          /\ TopicList[i].value = 1
          /\ Cardinality({p \in ConceptPlaces :
                             Get(ConceptAt(p), "display_name", "") = "NLP"}) = 2
    /\ \A i \in DOMAIN TopicList : TopicList[i].text # "Vision"
    /\ \E p \in ConceptPlaces : ConceptAt(p) = NLPx
    /\ \E p \in ConceptPlaces : ConceptAt(p) = CV0

\* what /api/chat answers from its lookups when none of them is replaced:
\* the researchers of the works lookup and its papers, or the papers of the
\* trending lookup when the works lookup gave neither
ChatPapers(body) ==
    LET results == Get(body, "results", <<>>)
    IN [i \in DOMAIN results |-> PaperInfo(results[i])]

ChatKeepsLookup ==
    LET first == calls[1].reply.body
        body == response.body
    IN /\ body.summary = RhettPlaceholder
       /\ body.suggested_researchers = extract_authors_from_works(first, 3)
       /\ IF Len(ChatPapers(first)) > 0 \/ Len(extract_authors_from_works(first, 3)) > 0
          THEN body.suggested_papers = ChatPapers(first)
          ELSE \E i \in DOMAIN calls :
                  /\ i > 1
                  /\ calls[i].api = "openalex"
                  /\ ~CallFailed(calls[i])
                  /\ body.suggested_papers = ChatPapers(calls[i].reply.body)

CompletionFailed ==
    \E i \in DOMAIN calls : calls[i].api = "openai" /\ CallFailed(calls[i])

\* C7 as stated: in /api/chat, when the works lookup succeeds and the
\* completion call fails, the summary is the placeholder and the suggested
\* researchers and papers are the ones derived from the lookup.
C7_PlaceholderWheneverWorksLookupSucceeds ==
    (Answered("/api/chat") /\ ~CallFailed(calls[1]) /\ CompletionFailed)
        => ChatKeepsLookup

\* C7 as amended: in /api/chat, when every bibliographic lookup the handler
\* makes succeeds (the works lookup and, when that gives no researcher and
\* no paper, the trending lookup) and the completion call fails, the
\* summary is the placeholder and the suggested researchers and papers are
\* the ones derived from the lookups.
C7_PlaceholderWhenEveryLookupSucceeds ==
    (/\ Answered("/api/chat")
     /\ \A i \in DOMAIN calls : calls[i].api = "openalex" => ~CallFailed(calls[i])
     /\ CompletionFailed)
        => ChatKeepsLookup

C7_Witness ==
    /\ Answered("/api/chat")
    /\ Len(calls) = 2
    /\ ~CallFailed(calls[1])
    /\ CallFailed(calls[2])
    /\ response.body.summary = RhettPlaceholder
    /\ Len(response.body.suggested_researchers) = 2
    /\ Len(response.body.suggested_papers) = 2

\* C8: /api/lifepath is the only route that answers with an error status:
\* it answers 500, with no story, when its completion call fails, and every
\* other route answers 200 whatever its upstream calls do.
C8_OnlyLifepathAnswers500 ==
    pc = "done" =>
        /\ request.route # "/api/lifepath" => response.status = 200
        /\ response.status # 200 =>
              (request.route = "/api/lifepath" /\ response.status = 500)
        /\ (request.route = "/api/lifepath" /\ CompletionFailed) =>
              (response.status = 500 /\ "story" \notin DOMAIN response.body)

C8_Witness ==
    /\ Answered("/api/lifepath")
    /\ Len(calls) = 1
    /\ Get(calls[1].reply, "error", "") = "api_error"
    /\ response.status = 500
    /\ "story" \notin DOMAIN response.body

\* the field names of the records of the live results
LiveWordFields ==
    DOMAIN get_wordcloud(PageReply([results |-> <<[concepts |-> <<NLP2>>]>>]))
               .response.body.words[1]
LiveTrendingFields ==
    DOMAIN get_trending(PageReply([results |-> <<[concepts |-> <<NLP2>>]>>]))
               .response.body[1]
LiveResearcherFields == DOMAIN ShapeResearcher([display_name |-> "x"])
LiveChatResearcherFields == DOMAIN AuthorEntry([author |-> [id |-> "A"]])
LivePaperFields == DOMAIN PaperInfo([id |-> "W"])
LiveCapsuleFields == DOMAIN Capsule([id |-> "W"])

\* every record of the list has exactly these fields
AllHave(records, fields) == \A i \in DOMAIN records : DOMAIN records[i] = fields

\* C9: every record a shaped route returns, on the live path and on the
\* fallback path alike, has exactly the fields of the live record.
C9_FallbackHasLiveFields ==
    pc = "done" =>
        LET body == response.body
        IN CASE request.route = "/api/wordcloud" -> AllHave(body.words, LiveWordFields)
             [] request.route = "/api/trending" -> AllHave(body, LiveTrendingFields)
             [] request.route = "/api/researchers" ->
                    AllHave(body.researchers, LiveResearcherFields)
             [] request.route = "/api/chat" ->
                    /\ DOMAIN body = {"summary", "suggested_researchers", "suggested_papers"}
                    /\ AllHave(body.suggested_researchers, LiveChatResearcherFields)
                    /\ AllHave(body.suggested_papers, LivePaperFields)
             [] request.route = "/api/lootbox" -> AllHave(body.capsules, LiveCapsuleFields)
             [] OTHER -> TRUE

\* C10: on the fallback path of /api/researchers the list is the mock
\* researchers, in mock order, that pass every filter given: topic inside
\* one of the topics, institution inside the affiliation, country inside the
\* country, each without regard to case.
KeptByFilters(r) ==
    /\ request.topic # None =>
          \E i \in DOMAIN r.topics : StrIn(Lower(request.topic), Lower(r.topics[i]))
    /\ request.institution # None =>
          StrIn(Lower(request.institution), Lower(r.affiliation))
    /\ request.country # None =>
          StrIn(Lower(request.country), Lower(r.country))

ResearchersFellBack == ~TruthyList(search_researchers(calls[1].reply))

C10_FallbackIsFilteredMock ==
    (Answered("/api/researchers") /\ ResearchersFellBack) =>
        response.body.researchers = SelectSeq(get_mock_researchers, KeptByFilters)

C10_Witness ==
    /\ Answered("/api/researchers")
    /\ ResearchersFellBack
    /\ request.topic = "ai"
    /\ request.institution = "University"
    /\ request.country = "us"
    /\ Len(response.body.researchers) > 0
    /\ Len(response.body.researchers) < Len(get_mock_researchers)

\* ========================================================================
\* The fallback filter of get_researchers on its own: the three `if`s of
\* app.py 102-107 applied to `filtered`, any number of times in any order
\* ========================================================================
MaxApplied == 3

AppliedTopics == {"ai", "LEARNING", ""}
AppliedInstitutions == {"mit", "University"}
AppliedCountries == {"us", "UK"}

FiltersOpen == Len(applied) < MaxApplied

ApplyTopicFilter ==
    /\ FiltersOpen
    /\ \E topic \in AppliedTopics :
          /\ filtered' = FilterByTopic(filtered, topic)
          /\ applied' = Append(applied, [field |-> "topic", value |-> topic])
    /\ UNCHANGED <<serverVars, authorVars, topicVars, rarityVars, clientVars, loopVars, searchVars>>

ApplyInstitutionFilter ==
    /\ FiltersOpen
    /\ \E institution \in AppliedInstitutions :
          /\ filtered' = FilterByInstitution(filtered, institution)
          /\ applied' = Append(applied, [field |-> "institution", value |-> institution])
    /\ UNCHANGED <<serverVars, authorVars, topicVars, rarityVars, clientVars, loopVars, searchVars>>

ApplyCountryFilter ==
    /\ FiltersOpen
    /\ \E country \in AppliedCountries :
          /\ filtered' = FilterByCountry(filtered, country)
          /\ applied' = Append(applied, [field |-> "country", value |-> country])
    /\ UNCHANGED <<serverVars, authorVars, topicVars, rarityVars, clientVars, loopVars, searchVars>>

InitFilters == ServerIdle /\ AuthorsIdle /\ TopicsIdle /\ RarityIdle /\ OthersIdle

NextFilters ==
    \/ ApplyTopicFilter
    \/ ApplyInstitutionFilter
    \/ ApplyCountryFilter

SpecFilters == InitFilters /\ [][NextFilters]_vars

\* one filter of a list of filters, applied as the handler applies it
ApplyFilter(researchers, f) ==
    CASE f.field = "topic" -> FilterByTopic(researchers, f.value)
      [] f.field = "institution" -> FilterByInstitution(researchers, f.value)
      [] f.field = "country" -> FilterByCountry(researchers, f.value)

RECURSIVE ApplyAll(_, _)
ApplyAll(filters, researchers) ==
    IF filters = <<>> THEN researchers
    ELSE ApplyAll(Tail(filters), ApplyFilter(researchers, Head(filters)))

Reversed(s) == [i \in DOMAIN s |-> s[Len(s) + 1 - i]]
EachTwice(s) == [i \in 1..(2 * Len(s)) |-> s[(i + 1) \div 2]]

\* C11: the fallback filtering is idempotent and commutative: the list the
\* filters give in the order applied is the list they give in the opposite
\* order, and the list they give with every filter applied twice.
C11_FilteringIdempotentCommutative ==
    /\ filtered = ApplyAll(Reversed(applied), get_mock_researchers)
    /\ filtered = ApplyAll(EachTwice(applied), get_mock_researchers)

\* two filters of different fields, each of which alone keeps more
C11_Witness ==
    /\ Len(applied) = 2
    /\ applied[1].field # applied[2].field
    /\ Len(filtered) > 0
    /\ Len(filtered) < Len(ApplyFilter(get_mock_researchers, applied[1]))
    /\ Len(filtered) < Len(ApplyFilter(get_mock_researchers, applied[2]))

\* ========================================================================
\* The OpenAlexAPI client on its own: operations called one after the other
\* on the one module-level client, as time passes.  Statements take no
\* time; time passes while the caller is away, in time.sleep and while the
\* request is out.
\* ========================================================================
\* what requests.get can bring back
ClientReplies ==
    FailedReplies \cup {[status_code |-> 404], PageReply([results |-> <<>>]),
                        PageReply(NoResultsBody)}

\* _rate_limit_wait: the argument of time.sleep, 0 when it does not sleep
SleepForElapsed(time, last) ==
    IF RateLimit > 0 /\ time - last < RateLimit THEN time - last ELSE 0

\* a wait of the whole interval, whatever time has passed
SleepForWholeInterval(time, last) ==
    IF RateLimit > 0 THEN RateLimit ELSE 0

SleepFor(time, last) ==
    IF RateLimit > 0 /\ time - last < RateLimit THEN RateLimit - (time - last) ELSE 0

\* where _make_request goes after the reply of requests.get: back to the
\* request on a failure
AfterReplyRetries(reply) ==
    IF MakeRequest(reply).raised THEN "sleeping" ELSE "returned"

\* where _make_request goes after the reply of requests.get
AfterReply(reply) ==
    IF MakeRequest(reply).raised THEN "raised" ELSE "returned"

\* a request that goes out without recording its time on the client
StampAndSendNoStamp(call) ==
    /\ last_request_time' = last_request_time
    /\ outbound' = Append(outbound, [at |-> now, call |-> call, reply |-> <<>>, done |-> 0])
    /\ client_pc' = "requesting"

\* self.last_request_time = time.time(), then requests.get
StampAndSend(call) ==
    /\ last_request_time' = now
    /\ outbound' = Append(outbound, [at |-> now, call |-> call, reply |-> <<>>, done |-> 0])
    /\ client_pc' = "requesting"

\* an operation of the client is called: _make_request begins with
\* _rate_limit_wait, which sleeps or goes on to the request at once
ClientCall ==
    /\ client_pc = "idle"
    /\ op_calls < MaxCalls
    /\ op_calls' = op_calls + 1
    /\ last_seen' = last_request_time
    /\ IF SleepFor(now, last_request_time) > 0
       THEN /\ client_pc' = "sleeping"
            /\ wake' = now + SleepFor(now, last_request_time)
            /\ UNCHANGED <<last_request_time, outbound>>
       ELSE /\ StampAndSend(op_calls + 1)
            /\ UNCHANGED wake
    /\ UNCHANGED <<now, client_result>>
    /\ UNCHANGED <<serverVars, authorVars, topicVars, rarityVars, filterVars, loopVars, searchVars>>

\* time.sleep returns, not before the time asked for
ClientWakes ==
    /\ client_pc = "sleeping"
    /\ now >= wake
    /\ StampAndSend(op_calls)
    /\ UNCHANGED <<now, wake, op_calls, last_seen, client_result>>
    /\ UNCHANGED <<serverVars, authorVars, topicVars, rarityVars, filterVars, loopVars, searchVars>>

\* requests.get comes back: raise_for_status, response.json(), the excepts;
\* the record of the request notes when
ClientReceives ==
    /\ client_pc = "requesting"
    /\ \E reply \in ClientReplies :
          /\ client_result' = MakeRequest(reply)
          /\ client_pc' = AfterReply(reply)
          /\ outbound' = [outbound EXCEPT ![Len(outbound)].reply = reply,
                                          ![Len(outbound)].done = now]
    /\ UNCHANGED <<now, last_request_time, wake, op_calls, last_seen>>
    /\ UNCHANGED <<serverVars, authorVars, topicVars, rarityVars, filterVars, loopVars, searchVars>>

\* the caller has the result, or the exception
ClientReturns ==
    /\ client_pc \in {"returned", "raised"}
    /\ client_pc' = "idle"
    /\ client_result' = NoneResult
    /\ UNCHANGED <<now, last_request_time, wake, outbound, op_calls, last_seen>>
    /\ UNCHANGED <<serverVars, authorVars, topicVars, rarityVars, filterVars, loopVars, searchVars>>

Tick ==
    /\ now < MaxNow
    /\ now' = now + 1
    /\ UNCHANGED <<last_request_time, client_pc, wake, outbound, op_calls,
                   last_seen, client_result>>
    /\ UNCHANGED <<serverVars, authorVars, topicVars, rarityVars, filterVars, loopVars, searchVars>>

InitClient == ServerIdle /\ AuthorsIdle /\ TopicsIdle /\ RarityIdle /\ OthersIdle

NextClient ==
    \/ ClientCall
    \/ ClientWakes
    \/ ClientReceives
    \/ ClientReturns
    \/ Tick

SpecClient == InitClient /\ [][NextClient]_vars

\* C12: with rate_limit > 0, two consecutive requests of the client are
\* issued at least rate_limit apart, whenever the operations are called.
C12_RequestsAtLeastRateLimitApart ==
    RateLimit > 0 =>
        \A i \in 1..(Len(outbound) - 1) :
            outbound[i + 1].at - outbound[i].at >= RateLimit

\* a call made at once after the one before slept and then went out exactly
\* rate_limit after it
C12_Witness ==
    /\ Len(outbound) >= 2
    /\ wake = outbound[2].at
    /\ outbound[2].at - outbound[1].at = RateLimit
    /\ outbound[2].at > StartTime

\* the reply is a failure of the request: a transport error or a status
\* that is no success
FailedRequest(reply) ==
    \/ "error" \in DOMAIN reply
    \/ reply.status_code < 200
    \/ reply.status_code > 299

\* C13: every operation of the client issues exactly one request, the
\* request of the i-th call being the i-th request; when the request fails
\* the operation raises, and no second request is made for the call.
C13_OneRequestPerCallNoRetry ==
    /\ Len(outbound) = IF client_pc = "sleeping" THEN op_calls - 1 ELSE op_calls
    /\ \A i \in DOMAIN outbound : outbound[i].call = i
    /\ client_pc \in {"returned", "raised"} =>
          (FailedRequest(outbound[Len(outbound)].reply) =>
              (client_pc = "raised" /\ client_result.raised))

\* a call whose one request failed with an error status has raised, after
\* an earlier call
C13_Witness ==
    /\ client_pc = "raised"
    /\ op_calls = 2
    /\ Len(outbound) = 2
    /\ Get(outbound[2].reply, "status_code", 0) = 500
    /\ client_result.raised

\* the first bibliographic call came back with a 200 and a JSON object that
\* has no results key
MissingResults ==
    /\ Len(calls) > 0
    /\ calls[1].api = "openalex"
    /\ ~CallFailed(calls[1])
    /\ "results" \notin DOMAIN calls[1].reply.body

ShapedRoutes ==
    {"/api/wordcloud", "/api/trending", "/api/researchers", "/api/chat", "/api/lootbox"}

\* the body is the one the route answers a failed call with
FallbackOfFailedCall ==
    LET body == response.body
    IN CASE request.route = "/api/wordcloud" -> body = [words |-> get_mock_wordcloud]
         [] request.route = "/api/trending" -> body = get_mock_trending
         [] request.route = "/api/researchers" ->
                body = [researchers |-> SelectSeq(get_mock_researchers, KeptByFilters)]
         [] request.route = "/api/chat" -> body = ChatFallback(request.query)
         [] request.route = "/api/lootbox" ->
                /\ DOMAIN body = {"capsules"}
                /\ Len(body.capsules) = SampleSize
                /\ \A i \in DOMAIN body.capsules :
                      \E j \in DOMAIN mock_capsules : body.capsules[i] = mock_capsules[j]

\* C14: on every route that shapes bibliographic data, a 200 whose JSON has
\* no results key is answered with the fallback of the route, as a failed
\* call is.
C14_MissingResultsGivesFallback ==
    (pc = "done" /\ request.route \in ShapedRoutes /\ MissingResults)
        => FallbackOfFailedCall

\* ========================================================================
\* One /works page given to both readers of a page: the topic aggregation
\* of get_trending_topics and extract_authors_from_works
\* ========================================================================
MaxPageWorks == 2

PageWorks == TopicWorks \cup ChatWorks

Pages ==
    {NoResultsBody} \cup {[results |-> p] : p \in SeqsUpTo(PageWorks, MaxPageWorks)}

InitPages ==
    /\ \E page \in Pages :
          /\ data = page
          /\ works_response = page
    /\ topics = NoneResult
    /\ max_authors = 0
    /\ researcher_info = NoneResult
    /\ ServerIdle /\ RarityIdle /\ OthersIdle

NextPages ==
    \/ AggregateTopics
    \/ ExtractAuthors

SpecPages == InitPages /\ [][NextPages]_vars

\* a page with no works: the results key is missing or its list is empty
EmptyPage(page) == "results" \notin DOMAIN page \/ page.results = <<>>

\* C15: on an empty works page, and on a page with no results key, the
\* topic aggregation returns an empty topic list and
\* extract_authors_from_works returns an empty list: each of them returns
\* (None, what the aggregation returns when it fails, is not what it gives),
\* and what they return is empty.
C15_EmptyPageGivesEmptyLists ==
    EmptyPage(data) =>
        /\ topics.is_none => ENABLED <<AggregateTopics>>_vars
        /\ ~topics.is_none => topics.value = <<>>
        /\ researcher_info.is_none => ENABLED <<ExtractAuthors>>_vars
        /\ ~researcher_info.is_none => researcher_info.value = <<>>

\* both readers have returned an empty list for a page without the results
\* key, the extraction having been asked for up to 3 authors
C15_Witness ==
    /\ "results" \notin DOMAIN data
    /\ works_response = data
    /\ topics = Some(<<>>)
    /\ researcher_info = Some(<<>>)
    /\ max_authors = 3

\* the oversample of /api/lootbox: the works of the page search_works
\* returned, none when the call failed
Oversample ==
    IF CallFailed(calls[1]) THEN <<>>
    ELSE Get(calls[1].reply.body, "results", <<>>)

\* the capsules are drawn from the fallback capsule set, each at most once
FromFallbackCapsules(capsules) ==
    /\ Len(capsules) = SampleSize
    /\ \A i \in DOMAIN capsules :
          \E j \in DOMAIN mock_capsules : capsules[i] = mock_capsules[j]
    /\ \A i, j \in DOMAIN capsules : i # j => capsules[i] # capsules[j]

\* C16: in /api/lootbox, when search_works succeeds with no works in it
\* (an empty results list, or no results key), the capsules are those of
\* the fallback set and the request made exactly one bibliographic call.
C16_ZeroWorksGivesFallbackNoRetry ==
    (Answered("/api/lootbox") /\ ~CallFailed(calls[1]) /\ Len(Oversample) = 0) =>
        /\ FromFallbackCapsules(response.body.capsules)
        /\ Len(calls) = 1
        /\ calls[1].api = "openalex"

C16_Witness ==
    /\ Answered("/api/lootbox")
    /\ ~CallFailed(calls[1])
    /\ "results" \in DOMAIN calls[1].reply.body
    /\ calls[1].reply.body.results = <<>>
    /\ FromFallbackCapsules(response.body.capsules)
    /\ Len(calls) = 1

\* each capsule is built from a work of the oversample, and no work gives
\* two capsules (the works of a page have different ids)
FromDifferentWorks(capsules) ==
    LET works == Oversample
    IN /\ \A i \in DOMAIN capsules :
             \E w \in DOMAIN works :
                 /\ works[w].id = capsules[i].link
                 /\ capsules[i].title = Get(works[w], "title", "Unknown Title")
                 /\ capsules[i].citations = Get(works[w], "cited_by_count", 0)
       /\ \A i, j \in DOMAIN capsules : i # j => capsules[i].link # capsules[j].link

AwaitingRoutes == {"/api/wordcloud", "/api/trending", "/api/researchers"}

\* chat and get_lootbox call the module-level OpenAlexAPI client
ClientRoutes == {"/api/chat", "/api/lootbox"}

\* rsti_advisor calls the OpenAI client and nothing else
CompletionRoutes == {"/api/rsti-advisor"}

LoopRoutes == AwaitingRoutes \cup ClientRoutes \cup CompletionRoutes

\* the places where a handler stands inside a plain call, holding the thread
Blocking ==
    {"sleeping", "requesting", "completing", "completing_empty",
     "sleeping_trending", "requesting_trending"}

\* the thread of the loop is free to run a handler
LoopFree == \A r \in Requests : loop_pc[r] \notin Blocking

\* what the handler learns from the reply to requests.get
Outcomes == {"failed", "empty", "works"}

\* _make_request begins: _rate_limit_wait sleeps, or the time is recorded
\* and requests.get is called
BeginCall(r, sleeping, requesting) ==
    IF SleepFor(now, last_request_time) > 0
    THEN /\ loop_pc' = [loop_pc EXCEPT ![r] = sleeping]
         /\ wake' = now + SleepFor(now, last_request_time)
         /\ UNCHANGED last_request_time
    ELSE /\ loop_pc' = [loop_pc EXCEPT ![r] = requesting]
         /\ last_request_time' = now
         /\ UNCHANGED wake

\* what no step of the loop changes
LoopRest ==
    <<serverVars, authorVars, topicVars, rarityVars, filterVars, searchVars,
      client_pc, outbound, op_calls, last_seen, client_result>>

\* an inbound request reaches the server
Arrive(r) ==
    /\ loop_pc[r] = "none"
    /\ r > 1 => loop_pc[r - 1] # "none"
    /\ \E route \in LoopRoutes :
          loop_route' = [loop_route EXCEPT ![r] = route]
    /\ loop_pc' = [loop_pc EXCEPT ![r] = "arrived"]
    /\ UNCHANGED <<now, last_request_time, wake, LoopRest>>

\* the loop runs the handler of a request, up to its first outbound call
Start(r) ==
    /\ loop_pc[r] = "arrived"
    /\ LoopFree
    /\ CASE loop_route[r] \in AwaitingRoutes ->
                /\ loop_pc' = [loop_pc EXCEPT ![r] = "awaiting"]
                /\ UNCHANGED <<last_request_time, wake>>
         [] loop_route[r] \in ClientRoutes ->
                BeginCall(r, "sleeping", "requesting")
         [] loop_route[r] \in CompletionRoutes ->
                /\ loop_pc' = [loop_pc EXCEPT ![r] = "completing"]
                /\ UNCHANGED <<last_request_time, wake>>
    /\ UNCHANGED <<now, loop_route, LoopRest>>

\* time.sleep returns: the time is recorded and requests.get is called
Wake(r) ==
    /\ loop_pc[r] \in {"sleeping", "sleeping_trending"}
    /\ now >= wake
    /\ loop_pc' = [loop_pc EXCEPT ![r] =
                      IF @ = "sleeping" THEN "requesting" ELSE "requesting_trending"]
    /\ last_request_time' = now
    /\ UNCHANGED <<now, wake, loop_route, LoopRest>>

\* requests.get returns.  get_lootbox answers whatever came; chat answers
\* its fallback when the call failed, and goes on to the completion call
\* otherwise; after the trending lookup it answers.
UpstreamReplies(r) ==
    /\ loop_pc[r] \in {"requesting", "requesting_trending"}
    /\ \E outcome \in Outcomes :
          loop_pc' = [loop_pc EXCEPT ![r] =
              IF loop_route[r] = "/api/lootbox" \/ @ = "requesting_trending"
                 \/ outcome = "failed"
              THEN "done"
              ELSE IF outcome = "empty" THEN "completing_empty" ELSE "completing"]
    /\ UNCHANGED <<now, last_request_time, wake, loop_route, LoopRest>>

\* the call of the OpenAI client is over, with a completion or an error
\* (the client ends an unanswered call by itself).  chat goes on to
\* get_trending_works when the works lookup gave nothing.
CompletionReturns(r) ==
    /\ loop_pc[r] \in {"completing", "completing_empty"}
    /\ IF loop_pc[r] = "completing_empty"
       THEN BeginCall(r, "sleeping_trending", "requesting_trending")
       ELSE /\ loop_pc' = [loop_pc EXCEPT ![r] = "done"]
            /\ UNCHANGED <<last_request_time, wake>>
    /\ UNCHANGED <<now, loop_route, LoopRest>>

\* await client.get is over: the reply has come, or timeout=10.0 of
\* httpx.AsyncClient has passed and the handler answers its fallback.
\* Either way it is the loop that resumes the handler.
AwaitReturns(r) ==
    /\ loop_pc[r] = "awaiting"
    /\ LoopFree
    /\ loop_pc' = [loop_pc EXCEPT ![r] = "done"]
    /\ UNCHANGED <<now, last_request_time, wake, loop_route, LoopRest>>

\* time passes; it does not stop under a sleeper
LoopTick ==
    /\ \/ now < MaxNow
       \/ \E r \in Requests :
             loop_pc[r] \in {"sleeping", "sleeping_trending"} /\ now < wake
    /\ now' = now + 1
    /\ UNCHANGED <<last_request_time, wake, loop_pc, loop_route, LoopRest>>

InitLoop == ServerIdle /\ AuthorsIdle /\ TopicsIdle /\ RarityIdle /\ OthersIdle

NextLoop ==
    \E r \in Requests :
        \/ Arrive(r)
        \/ Start(r)
        \/ Wake(r)
        \/ UpstreamReplies(r)
        \/ CompletionReturns(r)
        \/ AwaitReturns(r)
        \/ LoopTick

\* the loop runs what it can run, time passes, and the calls that have a
\* timeout end; nothing makes the upstream answer requests.get
LoopFairness ==
    /\ WF_vars(LoopTick)
    /\ \A r \in Requests :
          /\ WF_vars(Start(r))
          /\ WF_vars(Wake(r))
          /\ WF_vars(CompletionReturns(r))
          /\ WF_vars(AwaitReturns(r))

SpecLoop == InitLoop /\ [][NextLoop]_vars /\ LoopFairness

\* C19: every inbound request that has reached the server is answered in
\* the end, even when an upstream never answers, because every outbound
\* call ends at its timeout at the latest.
C19_EveryRequestIsAnswered ==
    \A r \in Requests : (loop_pc[r] = "arrived") ~> (loop_pc[r] = "done")

\* the handler of r is inside the rate-limit wait or an outbound call
Suspended(r) ==
    loop_pc[r] \in {"sleeping", "sleeping_trending", "requesting",
                    "requesting_trending", "awaiting"}

\* C20: while the handler of one inbound request is in the rate-limit
\* wait or in an outbound HTTP call, the handler of another inbound
\* request that has arrived can start.
C20_OthersStartWhileOneIsSuspended ==
    \A r, q \in Requests :
        (r # q /\ Suspended(r) /\ loop_pc[q] = "arrived") =>
            ENABLED <<Start(q)>>_vars

\* the names the page tags at level 2 or above
CountedNames == {ConceptAt(p).display_name : p \in CountedTags}

\* the first of a set of places in the scan
FirstOf(places) ==
    CHOOSE p \in places : \A q \in places : p = q \/ ScannedBefore(p, q)

\* the place where a name is counted for the first time
FirstCounted(name) == FirstOf(CountedPlaces(name))

\* C21: the list is in descending order of count, and of two neighbours
\* with equal counts the one whose name was first counted earlier stands
\* first, so that all topics of one count stand in the order in which
\* their names were first counted; and a counted name that the cut to
\* 30 leaves out has a smaller count than every listed topic, or an equal
\* count and a later first place.  (name, places and first are the tables
\* of the page, each bound once.)
C21_TiesInFirstCountedOrder ==
    ~topics.is_none =>
        \A name \in {[p \in CountedTags |-> ConceptAt(p).display_name]} :
        \A places \in {[n \in {name[p] : p \in DOMAIN name} |->
                           {p \in DOMAIN name : name[p] = n}]} :
        \A first \in {[n \in DOMAIN places |-> FirstOf(places[n])]} :
        \A listed \in {{TopicList[i].text : i \in DOMAIN TopicList}} :
            /\ \A i \in 1..(Len(TopicList) - 1) :
                  \/ TopicList[i].value > TopicList[i + 1].value
                  \/ /\ TopicList[i].value = TopicList[i + 1].value
                     /\ ScannedBefore(first[TopicList[i].text],
                                      first[TopicList[i + 1].text])
            /\ \A n \in DOMAIN places \ listed :
                  \A i \in DOMAIN TopicList :
                      \/ TopicList[i].value > Cardinality(places[n])
                      \/ /\ TopicList[i].value = Cardinality(places[n])
                         /\ ScannedBefore(first[TopicList[i].text], first[n])

\* a name counted once in the first work stands before the 29 names of the
\* second work that fit, all counted once, and the cut leaves out the two
\* names counted last
C21_Witness ==
    /\ ~topics.is_none
    /\ Len(TopicList) = 30
    /\ Cardinality(CountedNames) = 32
    /\ TopicList[1].text = "Vision"
    /\ TopicList[1].value = 1
    /\ TopicList[30].value = 1
    /\ FirstCounted("Vision") = <<1, 1>>
    /\ FirstCounted(TopicList[30].text) = <<2, 29>>

\* C22: the count of every listed topic is the number of concept tags of
\* the whole page with that name and a level of 2 or above, each tag
\* counted once, and no topic has the empty name.
C22_CountIsNumberOfTags ==
    ~topics.is_none =>
        \A count \in {TagCounts} :
            \A i \in DOMAIN TopicList :
                /\ TopicList[i].text # ""
                /\ TopicList[i].text \in DOMAIN count
                /\ TopicList[i].value = count[TopicList[i].text]

\* a name tagged twice on one work counts 2, beside a tag without a name
C22_Witness ==
    /\ ~topics.is_none
    /\ "results" \in DOMAIN data
    /\ Len(data.results) = 1
    /\ Len(TopicList) = 1
    /\ TopicList[1].text = "NLP"
    /\ TopicList[1].value = 2
    /\ CountedPlaces("NLP") = {<<1, 1>>, <<1, 2>>}
    /\ \E p \in ConceptPlaces : "display_name" \notin DOMAIN ConceptAt(p)

\* the authorship at a place of the page
AuthorshipAt(p) == works_response.results[p[1]].authorships[p[2]]

\* the affiliation an entry made from this authorship has: the display
\* name of the first listed institution, "N/A" when none is listed (or the
\* first one has no display name)
AffiliationOf(authorship) ==
    IF "institutions" \notin DOMAIN authorship THEN "N/A"
    ELSE IF authorship.institutions = <<>> THEN "N/A"
    ELSE IF "display_name" \in DOMAIN authorship.institutions[1]
         THEN authorship.institutions[1].display_name
         ELSE "N/A"

\* C23: the i-th entry of extract_authors_from_works describes the
\* authorship where the i-th distinct author id is first met: its link is
\* that id and its affiliation is that of this authorship, whatever later
\* authorships with the id list; there are no more entries than ids first
\* met, so an authorship without an author adds none; and works_count and
\* cited_by_count are present and null.
C23_EntryDescribesFirstAuthorship ==
    ~researcher_info.is_none =>
        LET out == researcher_info.value
        IN /\ Len(out) <= Cardinality(FirstPlaces)
           /\ \A i \in DOMAIN out :
                 /\ \E p \in FirstPlaces :
                       /\ RankOf(p) = i
                       /\ out[i].link = IdAt(p)
                       /\ out[i].affiliation = AffiliationOf(AuthorshipAt(p))
                 /\ {"works_count", "cited_by_count"} \subseteq DOMAIN out[i]
                 /\ out[i].works_count = None
                 /\ out[i].cited_by_count = None

\* an author first met with two institutions and met again with another
\* first institution, after an authorship without an author: one entry,
\* with the first institution of the first authorship
C23_Witness ==
    /\ ~researcher_info.is_none
    /\ "results" \in DOMAIN works_response
    /\ Len(works_response.results) = 1
    /\ Get(works_response.results[1], "authorships", <<>>) =
          <<[institutions |-> <<BU>>],
            [author |-> Ada, institutions |-> <<BU, MIT>>],
            [author |-> Ada, institutions |-> <<MIT>>],
            [author |-> Alan]>>
    /\ Len(researcher_info.value) = 2
    /\ researcher_info.value[1].affiliation = "BU"
    /\ researcher_info.value[2].affiliation = "N/A"
    /\ researcher_info.value[1].works_count = None

\* C24 as stated: the interval runs from the completion of the request
\* before, so every request is issued rate_limit or more after the request
\* before it has completed.
C24_IntervalRunsFromCompletion ==
    \A i \in 1..(Len(outbound) - 1) :
        outbound[i + 1].at - outbound[i].done >= RateLimit

\* C24 as amended: the interval runs from the time the request before was
\* issued, which _rate_limit_wait records before requests.get is called.
\* Every request is issued rate_limit or more after the request before was
\* issued, a wait ends rate_limit after that time, and so no later than
\* rate_limit after the request before has completed.
C24_IntervalRunsFromIssue ==
    /\ \A i \in 1..(Len(outbound) - 1) :
          outbound[i + 1].at - outbound[i].at >= RateLimit
    /\ client_pc = "sleeping" =>
          /\ Len(outbound) >= 1
          /\ wake = outbound[Len(outbound)].at + RateLimit
          /\ wake <= outbound[Len(outbound)].done + RateLimit

\* a request that took longer than rate_limit: the call made when it
\* completed did not wait, and its request went out at that very time
C24_Witness ==
    /\ Len(outbound) = 2
    /\ outbound[1].done - outbound[1].at > RateLimit
    /\ outbound[2].at = outbound[1].done
    /\ wake = 0

\* ========================================================================
\* The search operations of the OpenAlexAPI client: how each builds the
\* params it hands to _make_request.  A filter value is a bool, an int, a
\* str or (for publication_year) a list of ints, kept with its type; a dict
\* of filters and **kwargs are sequences of <<key, value>> in the order of
\* their items.
\* ========================================================================
BoolValue(b) == [type |-> "bool", value |-> b]
IntValue(n) == [type |-> "int", value |-> n]
StrValue(s) == [type |-> "str", value |-> s]
ListValue(l) == [type |-> "list", value |-> l]

\* str(value)
PyStr(value) ==
    CASE value.type = "bool" -> IF value.value THEN "True" ELSE "False"
      [] value.type = "int" -> ToString(value.value)
      [] value.type = "str" -> value.value

\* sep.join(strs)
RECURSIVE Join(_, _)
Join(sep, strs) ==
    IF strs = <<>> THEN ""
    ELSE IF Len(strs) = 1 THEN strs[1]
    ELSE strs[1] \o sep \o Join(sep, Tail(strs))

\* f"{key}:{value}" for every value, as search_institutions and
\* search_concepts write an entry
PlainEntry(key, value) == key \o ":" \o PyStr(value)

\* the entry the other operations write: a bool goes through
\* str(value).lower()
BoolEntry(key, value) ==
    IF value.type = "bool"
    THEN key \o ":" \o Lower(PyStr(value))
    ELSE key \o ":" \o PyStr(value)

\* the loop over filter_params.items() or kwargs.items() with BoolEntry
BoolEntries(items) == [i \in DOMAIN items |-> BoolEntry(items[i][1], items[i][2])]

\* the same loop with PlainEntry
PlainEntries(items) == [i \in DOMAIN items |-> PlainEntry(items[i][1], items[i][2])]

\* if filters: params['filter'] = ','.join(filters)
WithFilter(params, filters) ==
    IF filters # <<>> THEN params @@ [filter |-> Join(",", filters)] ELSE params

\* if query: params['search'] = query
WithSearch(params, query) ==
    IF Truthy(query) THEN params @@ [search |-> query] ELSE params

\* if sort: params['sort'] = sort
WithSort(params, sort) ==
    IF Truthy(sort) THEN params @@ [sort |-> sort] ELSE params

\* the quick filter shortcuts of search_works, in the order of the code; a
\* shortcut that is None is a field the record shortcuts lacks
ShortcutEntries(shortcuts) ==
    (IF "publication_year" \in DOMAIN shortcuts
     THEN IF shortcuts.publication_year.type = "list"
          THEN <<"publication_year:" \o
                 Join("|", [i \in DOMAIN shortcuts.publication_year.value |->
                               ToString(shortcuts.publication_year.value[i])])>>
          ELSE <<"publication_year:" \o PyStr(shortcuts.publication_year)>>
     ELSE <<>>)
    \o (IF "publication_date" \in DOMAIN shortcuts
        THEN <<"publication_date:" \o PyStr(shortcuts.publication_date)>> ELSE <<>>)
    \o (IF "cited_by_count" \in DOMAIN shortcuts
        THEN <<"cited_by_count:" \o PyStr(shortcuts.cited_by_count)>> ELSE <<>>)
    \o (IF "is_oa" \in DOMAIN shortcuts
        THEN <<"is_oa:" \o Lower(PyStr(shortcuts.is_oa))>> ELSE <<>>)
    \o (IF "type" \in DOMAIN shortcuts
        THEN <<"type:" \o PyStr(shortcuts.type)>> ELSE <<>>)
    \o (IF "institutions_id" \in DOMAIN shortcuts
        THEN <<"institutions.id:" \o PyStr(shortcuts.institutions_id)>> ELSE <<>>)
    \o (IF "authors_id" \in DOMAIN shortcuts
        THEN <<"authorships.author.id:" \o PyStr(shortcuts.authors_id)>> ELSE <<>>)
    \o (IF "concepts_id" \in DOMAIN shortcuts
        THEN <<"concepts.id:" \o PyStr(shortcuts.concepts_id)>> ELSE <<>>)

\* the params of the six search operations, with the defaults of per_page
\* and page
search_works(query, filter_params, sort, shortcuts, kwargs) ==
    WithSort(WithFilter(WithSearch([per_page |-> 25, page |-> 1], query),
                        BoolEntries(filter_params) \o ShortcutEntries(shortcuts)
                            \o BoolEntries(kwargs)),
             sort)

search_authors(query, filter_params, sort, kwargs) ==
    WithSort(WithFilter(WithSearch([per_page |-> 25, page |-> 1], query),
                        BoolEntries(filter_params) \o BoolEntries(kwargs)),
             sort)

search_institutions(query, filter_params, sort, kwargs) ==
    WithSort(WithFilter(WithSearch([per_page |-> 25], query),
                        PlainEntries(filter_params) \o PlainEntries(kwargs)),
             sort)

search_concepts(query, filter_params, sort, kwargs) ==
    WithSort(WithFilter(WithSearch([per_page |-> 25], query),
                        PlainEntries(filter_params) \o PlainEntries(kwargs)),
             sort)

search_sources(query, filter_params, sort, kwargs) ==
    WithSort(WithFilter(WithSearch([per_page |-> 25], query),
                        BoolEntries(filter_params) \o BoolEntries(kwargs)),
             sort)

group_works_by(group_by, filter_params, kwargs) ==
    WithFilter([group_by |-> group_by, per_page |-> 200],
               BoolEntries(filter_params) \o BoolEntries(kwargs))

\* the filter items a call may pass, the longest dict of them, and the
\* shortcut arguments of search_works
FilterItems ==
    {<<"is_oa", BoolValue(TRUE)>>, <<"has_orcid", BoolValue(FALSE)>>,
     <<"type", StrValue("article")>>, <<"level", IntValue(0)>>}

MaxFilters == 2

\* the dicts of at most MaxFilters items, no key twice
FilterDicts ==
    {d \in UNION {[1..n -> FilterItems] : n \in 0..MaxFilters} :
        \A i, j \in DOMAIN d : i # j => d[i][1] # d[j][1]}

Shortcuts ==
    {<<>>,
     [publication_year |-> StrValue("2024-2025")],
     [publication_year |-> IntValue(2024), is_oa |-> BoolValue(TRUE)],
     [publication_year |-> ListValue(<<2023, 2024>>), is_oa |-> BoolValue(FALSE),
      type |-> StrValue("article")],
     [publication_date |-> StrValue("2024-01-15"), cited_by_count |-> StrValue(">100"),
      institutions_id |-> StrValue("I1"), authors_id |-> StrValue("A1"),
      concepts_id |-> StrValue("C1")]}

SearchQueries == {None, "ai"}
SearchSorts == {None, "cited_by_count:desc"}

\* what a search step leaves alone
SearchRest ==
    <<serverVars, authorVars, topicVars, rarityVars, filterVars, clientVars, loopVars>>

\* an operation is called once the one before has handed over its params
SearchWorks ==
    /\ search_call.operation = "none"
    /\ \E query \in SearchQueries, filter_params \in FilterDicts, sort \in SearchSorts,
          shortcuts \in Shortcuts, kwargs \in FilterDicts :
          /\ search_call' = [operation |-> "search_works", filter_params |-> filter_params,
                             shortcuts |-> shortcuts, kwargs |-> kwargs]
          /\ search_params' = search_works(query, filter_params, sort, shortcuts, kwargs)
    /\ UNCHANGED SearchRest

SearchAuthors ==
    /\ search_call.operation = "none"
    /\ \E query \in SearchQueries, filter_params \in FilterDicts, sort \in SearchSorts,
          kwargs \in FilterDicts :
          /\ search_call' = [operation |-> "search_authors", filter_params |-> filter_params,
                             shortcuts |-> <<>>, kwargs |-> kwargs]
          /\ search_params' = search_authors(query, filter_params, sort, kwargs)
    /\ UNCHANGED SearchRest

SearchInstitutions ==
    /\ search_call.operation = "none"
    /\ \E query \in SearchQueries, filter_params \in FilterDicts, sort \in SearchSorts,
          kwargs \in FilterDicts :
          /\ search_call' = [operation |-> "search_institutions",
                             filter_params |-> filter_params,
                             shortcuts |-> <<>>, kwargs |-> kwargs]
          /\ search_params' = search_institutions(query, filter_params, sort, kwargs)
    /\ UNCHANGED SearchRest

SearchConcepts ==
    /\ search_call.operation = "none"
    /\ \E query \in SearchQueries, filter_params \in FilterDicts, sort \in SearchSorts,
          kwargs \in FilterDicts :
          /\ search_call' = [operation |-> "search_concepts", filter_params |-> filter_params,
                             shortcuts |-> <<>>, kwargs |-> kwargs]
          /\ search_params' = search_concepts(query, filter_params, sort, kwargs)
    /\ UNCHANGED SearchRest

SearchSources ==
    /\ search_call.operation = "none"
    /\ \E query \in SearchQueries, filter_params \in FilterDicts, sort \in SearchSorts,
          kwargs \in FilterDicts :
          /\ search_call' = [operation |-> "search_sources", filter_params |-> filter_params,
                             shortcuts |-> <<>>, kwargs |-> kwargs]
          /\ search_params' = search_sources(query, filter_params, sort, kwargs)
    /\ UNCHANGED SearchRest

GroupWorksBy ==
    /\ search_call.operation = "none"
    /\ \E filter_params \in FilterDicts, kwargs \in FilterDicts :
          /\ search_call' = [operation |-> "group_works_by", filter_params |-> filter_params,
                             shortcuts |-> <<>>, kwargs |-> kwargs]
          /\ search_params' = group_works_by("type", filter_params, kwargs)
    /\ UNCHANGED SearchRest

\* _make_request has the params; the client is ready for the next call
SearchReturns ==
    /\ search_call.operation # "none"
    /\ search_call' = [operation |-> "none"]
    /\ search_params' = <<>>
    /\ UNCHANGED SearchRest

InitSearch == ServerIdle /\ AuthorsIdle /\ TopicsIdle /\ RarityIdle /\ OthersIdle

NextSearch ==
    \/ SearchWorks
    \/ SearchAuthors
    \/ SearchInstitutions
    \/ SearchConcepts
    \/ SearchSources
    \/ GroupWorksBy
    \/ SearchReturns

SpecSearch == InitSearch /\ [][NextSearch]_vars

\* key:value with a bool written true or false
LowerCaseEntry(key, value) ==
    key \o ":" \o (IF value.type = "bool"
                   THEN (IF value.value THEN "true" ELSE "false")
                   ELSE IF value.type = "list"
                        THEN Join("|", [i \in DOMAIN value.value |->
                                           ToString(value.value[i])])
                        ELSE PyStr(value))

\* the filter key each shortcut argument of search_works stands for
ShortcutKeys ==
    <<<<"publication_year", "publication_year">>,
      <<"publication_date", "publication_date">>,
      <<"cited_by_count", "cited_by_count">>,
      <<"is_oa", "is_oa">>,
      <<"type", "type">>,
      <<"institutions_id", "institutions.id">>,
      <<"authors_id", "authorships.author.id">>,
      <<"concepts_id", "concepts.id">>>>

\* the shortcuts a call gives, as <<key, value>> in the order of the code
RECURSIVE GivenShortcuts(_, _)
GivenShortcuts(keys, shortcuts) ==
    IF keys = <<>> THEN <<>>
    ELSE (IF Head(keys)[1] \in DOMAIN shortcuts
          THEN <<<<Head(keys)[2], shortcuts[Head(keys)[1]]>>>>
          ELSE <<>>)
         \o GivenShortcuts(Tail(keys), shortcuts)

\* the filter entries of a call, in order: filter_params, the shortcuts
\* that are given, the extra keyword arguments
EntriesOfCall(call) ==
    call.filter_params \o GivenShortcuts(ShortcutKeys, call.shortcuts) \o call.kwargs

\* C25: after every search operation the filter parameter is the entries
\* of the call, each written key:value with a bool in lower case, joined
\* by commas; it is absent when the call has no entry.
C25_FilterEntriesLowerCaseJoined ==
    search_call.operation # "none" =>
        LET entries == EntriesOfCall(search_call)
        IN IF entries = <<>>
           THEN "filter" \notin DOMAIN search_params
           ELSE /\ "filter" \in DOMAIN search_params
                /\ search_params.filter =
                      Join(",", [i \in DOMAIN entries |->
                                    LowerCaseEntry(entries[i][1], entries[i][2])])

\* the apis of the calls made for the request, in the order of the calls
ApisCalled == [i \in DOMAIN calls |-> calls[i].api]

\* the works lookup of chat gave no researcher and no paper
ChatFoundNothing ==
    /\ ~MakeRequest(calls[1].reply).raised
    /\ Len(ChatPapers(calls[1].reply.body)) = 0
    /\ Len(extract_authors_from_works(calls[1].reply.body, 3)) = 0

\* C26 as stated: for one /api/chat request every bibliographic request is
\* issued before the completion call and none follows it.
C26_NoLookupAfterCompletion ==
    Answered("/api/chat") =>
        \A i, j \in DOMAIN calls :
            (calls[i].api = "openalex" /\ calls[j].api = "openai") => i < j

\* C26 as amended: the calls of one /api/chat request are, in order, the
\* works lookup alone when it raised; else the works lookup and then the
\* completion call; and after these, when the works lookup gave no
\* researcher and no paper, one more bibliographic request.
C26_LookupCompletionThenTrending ==
    Answered("/api/chat") =>
        ApisCalled =
            IF MakeRequest(calls[1].reply).raised THEN <<"openalex">>
            ELSE IF ChatFoundNothing THEN <<"openalex", "openai", "openalex">>
            ELSE <<"openalex", "openai">>

\* a request whose completion call was answered before the trending lookup
\* was made, with papers in the trending lookup
C26_Witness ==
    /\ Answered("/api/chat")
    /\ ApisCalled = <<"openalex", "openai", "openalex">>
    /\ ~CallFailed(calls[2])
    /\ ~CallFailed(calls[3])
    /\ Len(response.body.suggested_papers) > 0

\* the places among the first three of a list whose entry has a display name
NamedPlaces(entries) ==
    {i \in 1..Min(3, Len(entries)) :
        /\ "display_name" \in DOMAIN entries[i]
        /\ entries[i].display_name # None
        /\ entries[i].display_name # ""}

\* names holds the display names at the named places, in the order of the
\* places
ListsNamedPlaces(names, entries) ==
    \A given \in {entries} :
        \A places \in {NamedPlaces(given)} :
            /\ Len(names) = Cardinality(places)
            /\ \A i \in places :
                  names[Cardinality({j \in places : j <= i})] = given[i].display_name

\* the authors of the authorships of a work; an authorship without an
\* author has no name
AuthorEntries(work) ==
    IF "authorships" \in DOMAIN work
    THEN [i \in DOMAIN work.authorships |->
            IF "author" \in DOMAIN work.authorships[i]
            THEN work.authorships[i].author ELSE <<>>]
    ELSE <<>>

ConceptEntries(work) == IF "concepts" \in DOMAIN work THEN work.concepts ELSE <<>>

\* C27: every capsule built from a work of the oversample lists at most 3
\* authors and at most 3 concepts: the display names found among the first
\* 3 authorships and among the first 3 concepts of its work, in the order
\* of the work, an entry without a name being left out and not replaced by
\* a later one.
C27_CapsuleListsFirstThreeNamed ==
    (Answered("/api/lootbox") /\ Len(Oversample) > 0) =>
        \A works \in {Oversample} :
            \A capsule \in {response.body.capsules[i] : i \in DOMAIN response.body.capsules} :
                \E w \in DOMAIN works :
                    /\ works[w].id = capsule.link
                    /\ Len(capsule.authors) <= 3
                    /\ Len(capsule.concepts) <= 3
                    /\ ListsNamedPlaces(capsule.authors, AuthorEntries(works[w]))
                    /\ ListsNamedPlaces(capsule.concepts, ConceptEntries(works[w]))

\* a capsule of a work with four authorships and four concepts, an unnamed
\* one among the first three of each
C27_Witness ==
    /\ Answered("/api/lootbox")
    /\ Len(Oversample) > 0
    /\ Len(response.body.capsules) > 0
    /\ response.body.capsules[1].link = Oversample[1].id
    /\ Len(AuthorEntries(Oversample[1])) = 4
    /\ Len(ConceptEntries(Oversample[1])) = 4
    /\ NamedPlaces(AuthorEntries(Oversample[1])) = {1, 3}
    /\ NamedPlaces(ConceptEntries(Oversample[1])) = {1, 2}
    /\ response.body.capsules[1].authors = <<"Ada Lovelace", "Alan Turing">>
    /\ response.body.capsules[1].concepts = <<"NLP", "Vision">>

\* the message the completion API is asked to continue a conversation with,
\* when a choice (a string that is not empty) came with the request
ChosenMessages ==
    IF request.choice # None /\ request.choice # ""
    THEN <<[role |-> "user",
            content |-> "I choose option " \o request.choice \o "."]>>
    ELSE <<>>

AssistantReply == [role |-> "assistant", content |-> response.body.reply]

\* C28: /api/rsti-advisor only appends to the conversation history.  With
\* an empty input history the returned history is the system prompt, the
\* opening user message and the assistant reply, whatever the choice; with
\* a non-empty input history it is the input history, then one user message
\* for the choice if there is one, then the assistant reply; when the
\* completion call fails it is the input history, is_final is false and
\* recommended_topics is empty.
C28_HistoryIsAppendOnly ==
    Answered("/api/rsti-advisor") =>
        IF CompletionFailed
        THEN /\ response.body.conversation_history = request.conversation_history
             /\ response.body.is_final = FALSE
             /\ response.body.recommended_topics = <<>>
        ELSE IF request.conversation_history = <<>>
        THEN /\ Len(response.body.conversation_history) = 3
             /\ response.body.conversation_history[1] = SystemMessage
             /\ response.body.conversation_history[2].role = "user"
             /\ response.body.conversation_history[2].content =
                    "My academic background is "
                    \o (IF request.major \in {None, ""} THEN "your field"
                        ELSE request.major)
                    \o " and my RSTI type is " \o request.rsti_type
                    \o ". Let's begin."
             /\ response.body.conversation_history[3] = AssistantReply
        ELSE response.body.conversation_history =
                request.conversation_history \o ChosenMessages \o <<AssistantReply>>

\* a new conversation that came with a choice is answered
C28_Witness ==
    /\ Answered("/api/rsti-advisor")
    /\ ~CompletionFailed
    /\ request.conversation_history = <<>>
    /\ request.choice = "2"
    /\ Len(response.body.conversation_history) = 3

\* the static response of /api/chat: a fixed text naming the query, two
\* fixed researchers, no papers
IsStaticChatResponse ==
    /\ response.body.summary =
          "Based on your interest in '" \o request.query
          \o "', this field is growing rapidly with numerous breakthroughs in AI applications."
    /\ Len(response.body.suggested_researchers) = 2
    /\ response.body.suggested_researchers[1].name = "Dr. Alice Zhang"
    /\ response.body.suggested_researchers[2].name = "Prof. Mark Liu"
    /\ response.body.suggested_papers = <<>>

\* C29: in /api/chat, when the works lookup succeeds with no researcher and
\* no paper in it, the handler looks up the trending works (7 days, 3 per
\* page) after the summary was generated; if that lookup succeeds its works
\* are the suggested_papers, next to the generated summary, and if it
\* raises the response is the static one and the generated summary is not
\* returned.
C29_TrendingLookupAfterSummary ==
    (Answered("/api/chat") /\ ChatFoundNothing) =>
        /\ Len(calls) = 3
        /\ calls[2].api = "openai"
        /\ calls[3].api = "openalex"
        /\ calls[3].path = "/works"
        /\ calls[3].days = 7
        /\ calls[3].per_page = 3
        /\ IF MakeRequest(calls[3].reply).raised
           THEN /\ IsStaticChatResponse
                /\ response.body.summary # chat_with_rhett(calls[2].reply)
           ELSE /\ response.body.summary = chat_with_rhett(calls[2].reply)
                /\ response.body.suggested_researchers = <<>>
                /\ response.body.suggested_papers = ChatPapers(calls[3].reply.body)

\* a summary was generated and the trending lookup raised after it
C29_Witness ==
    /\ Answered("/api/chat")
    /\ ChatFoundNothing
    /\ Len(calls) = 3
    /\ ~CallFailed(calls[2])
    /\ MakeRequest(calls[3].reply).raised
    /\ IsStaticChatResponse

CareerPaths == {"academic", "industry", "startup"}

\* a completion request of the current inbound request went on the wire
CompletionRequestSent ==
    \E i \in DOMAIN calls :
        /\ calls[i].api = "openai"
        /\ ("error" \notin DOMAIN calls[i].reply \/ calls[i].reply.error # "no_api_key")

\* C30: in /api/lifepath the career path a completion request or a story is
\* made for is one of academic, industry and startup: it is one of the
\* three when pathPreference is 'random', it is pathPreference when that is
\* one of the three, and any other pathPreference ends the request with an
\* HTTP 500 error and without a completion request.
C30_PathIsOneOfThree ==
    Answered("/api/lifepath") =>
        /\ (CompletionRequestSent \/ response.status = 200) =>
              /\ pathType \in CareerPaths
              /\ (request.pathPreference # "random" => pathType = request.pathPreference)
        /\ request.pathPreference \notin (CareerPaths \cup {"random"}) =>
              /\ response.status = 500
              /\ ~CompletionRequestSent

\* a request for a path that is none of the three, with an API key, is
\* answered with a 500 and no call
C30_Witness ==
    /\ Answered("/api/lifepath")
    /\ request.pathPreference = "pirate"
    /\ response.status = 500
    /\ calls = <<>>
====
